---- MODULE Spec2Model ----
(***************************************************************************)
(* Pinpoint (baileydunning/pinpoint): the land checker, the reverse        *)
(* geocoder with its throttle, the practice and daily puzzle generators    *)
(* and the local statistics, modelled from web/src/lib.                    *)
(*                                                                         *)
(* Conventions.  Strings that the code builds or hashes are sequences of   *)
(* character codes.  Coordinates are integers in units of 1/10000 degree.  *)
(* A 32-bit word is a pair <<high 16 bits, low 16 bits>>.  Every async     *)
(* function is a call record whose pc names the await it is suspended at;  *)
(* one action is one run-to-completion turn of the JavaScript event loop.  *)
(***************************************************************************)
EXTENDS Integers, Sequences, FiniteSets, TLC

VARIABLES
  now,                  \* Date.now(), in ms
  today,                \* the local calendar date, [yyyy, mm, dd]
  lastNominatimRequest, \* landChecker.ts module variable
  landFeatures,         \* landChecker.ts module variable (NULL or a snapshot id)
  loadingPromise,       \* landChecker.ts module variable (0 for null, or the
                        \* request whose promise chain it holds)
  landGeometry,         \* dailyPuzzle module variable (NULL or a snapshot id)
  calls,                \* the async calls of this page load, in start order
  requests,             \* the network requests of this page load, in issue order
  puzzles,              \* every Puzzle a generator has resolved to (all page loads)
  page,                 \* the number of this page load
  started,              \* how many calls were started so far (all page loads)
  storedResults,        \* localStorage item pinpoint_results: [has, json]
  storedStats,          \* localStorage item pinpoint_stats: [has, json]
  defaultStats,         \* statsManager module object, shared by reference
  submitted,            \* every result handed to saveResult so far, in call order
  storedDaily,          \* localStorage item pinpoint_daily_results: [has, json]
  storedPlayed,         \* localStorage item pinpoint_daily_played: [has, value]
  lastDaily,            \* the result of the latest saveDailyResult call: [has, result]
  zone,                 \* the time zone of the browser
  probe,                \* the argument a pure function is about to be called with
  probed,               \* what it returned: [done, value]
  game,                 \* the state of the useGame hook
  board,                \* the state of the HighScores page
  storedMaps,           \* localStorage item pinpoint_saved_maps: [has, parses, json]
  storedName,           \* localStorage item pinpoint_player_name: [has, value]
  loads,                \* the puzzle loads the hook has started, in start order
  table                 \* the HighScores table of the leaderboard store

geoVars == <<now, today, lastNominatimRequest, landFeatures, loadingPromise,
             landGeometry, calls, requests, puzzles, page, started>>

dailyVars == <<storedDaily, storedPlayed, lastDaily, zone>>

probeVars == <<probe, probed>>

uiVars == <<game, board>>

sideVars == <<storedMaps, storedName, loads, table>>

statsVars ==
  <<storedResults, storedStats, defaultStats, submitted, dailyVars, probeVars, uiVars, sideVars>>

vars == <<geoVars, statsVars>>

NULL == "null"

(***************************************************************************)
(* Bounds of the model                                                     *)
(***************************************************************************)
MaxCalls == 2        \* resolver and loader calls started per run
MaxLookups == 3      \* reverse lookups started when only lookups are made
MaxPuzzleCalls == 2  \* puzzle generations started per run
MaxTicks == 2        \* clock ticks per run
TickMs == 500        \* length of one clock tick, in ms
PageLoadTime == 5000 \* Date.now() when the page loads
RandSteps == 3       \* Math.random() takes the values k / RandSteps
MaxPages == 2        \* page loads per run
MaxDays == 2         \* calendar days a run spans
MaxSaves == 102      \* saveResult calls per run
MaxChanges == 1      \* places where a saved result differs from the one before it
MaxHistoryDays == 33 \* calendar days a run of the daily history spans
MaxSkips == 1        \* days without a daily result within the retained history
MaxReplays == 1      \* retained daily results that came from a second game on their day
MaxStreakDays == 10  \* calendar days a run of the streak spans
MaxSubmits == 1      \* submitGuess calls per run
MaxWaits == 1        \* waits of the length of the leaderboard timeout per run
MaxClearSaves == 4   \* saveResult calls per run when statistics are cleared in between
MaxMaps == 2         \* saved maps in the collection
MaxLoads == 2        \* puzzle loads of the hook that are pending at a time
HookDays == 2        \* days over which the hook stays mounted
MaxPosts == 3        \* postHighScore calls per run
MaxDamagedSaves == 3 \* saveResult calls per run when stored items get damaged

(***************************************************************************)
(* 32-bit arithmetic on <<hi, lo>> words                                   *)
(***************************************************************************)
W16 == 256 * 256
Word32 == (0..(W16 - 1)) \X (0..(W16 - 1))

P2 == <<1, 2, 4, 8, 16, 32, 64, 128, 256, 512, 1024, 2048, 4096, 8192, 16384, 32768, 65536>>

\* bitwise ^ of two bytes, tabulated
XorByte ==
  [a \in 0..255 |-> [b \in 0..255 |->
     ((a + b) % 2)
     + ((((a \div 2) + (b \div 2)) % 2) * 2)
     + ((((a \div 4) + (b \div 4)) % 2) * 4)
     + ((((a \div 8) + (b \div 8)) % 2) * 8)
     + ((((a \div 16) + (b \div 16)) % 2) * 16)
     + ((((a \div 32) + (b \div 32)) % 2) * 32)
     + ((((a \div 64) + (b \div 64)) % 2) * 64)
     + ((((a \div 128) + (b \div 128)) % 2) * 128)]]

\* bitwise ^ and | of two 16-bit numbers (a | b = (a + b + (a ^ b)) / 2)
BitXor(a, b) == (XorByte[a \div 256][b \div 256] * 256) + XorByte[a % 256][b % 256]
BitOr(a, b) == (a + b + BitXor(a, b)) \div 2

Xor32(a, b) == <<BitXor(a[1], b[1]), BitXor(a[2], b[2])>>
Or32(a, k) == <<a[1], BitOr(a[2], k)>>
Add32(a, b) == <<(a[1] + b[1] + ((a[2] + b[2]) \div W16)) % W16, (a[2] + b[2]) % W16>>
Neg32(a) == <<(W16 - a[1] - (IF a[2] = 0 THEN 0 ELSE 1)) % W16, (W16 - a[2]) % W16>>

\* a >>> k for 0 < k < 16
Shr32(a, k) ==
  <<a[1] \div P2[k + 1], (a[2] \div P2[k + 1]) + ((a[1] % P2[k + 1]) * P2[17 - k])>>

\* the 32-bit product of two 16-bit numbers
Mul16(a, b) ==
  LET p0 == a * (b % 256)
      p1 == a * (b \div 256)
      low == p0 + ((p1 % 256) * 256)
  IN <<((low \div W16) + (p1 \div 256)) % W16, low % W16>>

\* Math.imul
Imul(a, b) ==
  LET m == Mul16(a[2], b[2])
  IN <<(m[1] + Mul16(a[1], b[2])[2] + Mul16(a[2], b[1])[2]) % W16, m[2]>>

\* floor(u / 2^32 * span) for a 32-bit u
ScaleTo(u, span) == ((u[1] * span) + ((u[2] * span) \div W16)) \div W16

(***************************************************************************)
(* Strings as character codes                                              *)
(***************************************************************************)
DigitChar(d) == 48 + d
Pad2(n) == <<DigitChar(n \div 10), DigitChar(n % 10)>>
Dec4(n) == <<DigitChar(n \div 1000), DigitChar((n \div 100) % 10),
             DigitChar((n \div 10) % 10), DigitChar(n % 10)>>
Dash == <<45>>
DailyPrefix == <<100, 97, 105, 108, 121, 45>>                      \* "daily-"
DailyLocPrefix == <<100, 97, 105, 108, 121, 45, 108, 111, 99, 45>>   \* "daily-loc-"
PuzzlePrefix == <<112, 117, 122, 122, 108, 101, 45>>                 \* "puzzle-"
LocPrefix == <<108, 111, 99, 45>>                                    \* "loc-"
MapPrefix == <<109, 97, 112, 45>>                                    \* "map-"

\* getTodayDateString: `${yyyy}-${mm}-${dd}` of the local date
getTodayDateString == Dec4(today.yyyy) \o Dash \o Pad2(today.mm) \o Dash \o Pad2(today.dd)

\* a < b for strings, code unit by code unit
StrLess(a, b) ==
  \/ \E i \in 1..Len(a) :
       /\ i <= Len(b)
       /\ a[i] < b[i]
       /\ \A j \in 1..(i - 1) : a[j] = b[j]
  \/ /\ Len(a) < Len(b)
     /\ \A j \in 1..Len(a) : a[j] = b[j]

(***************************************************************************)
(* Date objects.  The calendar is that of 2024; an instant is a number of  *)
(* hours since 2024-01-01T00:00Z.  A time zone is its two offsets from UTC *)
(* in hours and the instant its daylight saving time of 2024 ends.         *)
(***************************************************************************)
DaysIn == <<31, 29, 31, 30, 31, 30, 31, 31, 30, 31, 30, 31>>

RECURSIVE DaysBefore(_)
DaysBefore(mm) == IF mm = 1 THEN 0 ELSE DaysBefore(mm - 1) + DaysIn[mm - 1]

\* the days from 2024-01-01 to `date`
DayNumber(date) == DaysBefore(date.mm) + (date.dd - 1)

MonthOf(n) == CHOOSE mm \in 1..12 : DaysBefore(mm) <= n /\ n < DaysBefore(mm) + DaysIn[mm]

DateOf(n) == [yyyy |-> 2024, mm |-> MonthOf(n), dd |-> (n - DaysBefore(MonthOf(n))) + 1]

Digit(char) == char - 48

\* the year, month and day fields of a YYYY-MM-DD string
DateFields(str) ==
  [yyyy |-> (Digit(str[1]) * 1000) + (Digit(str[2]) * 100) + (Digit(str[3]) * 10) + Digit(str[4]),
   mm |-> (Digit(str[6]) * 10) + Digit(str[7]),
   dd |-> (Digit(str[9]) * 10) + Digit(str[10])]

\* new Date(str) for a date-only string: midnight UTC of that day
NewDate(str) == 24 * DayNumber(DateFields(str))

\* date.toISOString().split('T')[0]: the UTC calendar day of the instant
ISODate(instant) ==
  Dec4(DateOf(instant \div 24).yyyy) \o Dash \o Pad2(DateOf(instant \div 24).mm)
    \o Dash \o Pad2(DateOf(instant \div 24).dd)

ZoneUTC == [name |-> "UTC", standard |-> 0, daylight |-> 0, fallBack |-> 0]
ZoneBerlin ==
  [name |-> "Europe/Berlin", standard |-> 1, daylight |-> 2,
   fallBack |-> (24 * DayNumber([yyyy |-> 2024, mm |-> 10, dd |-> 27])) + 1]
ZoneNewYork ==
  [name |-> "America/New_York", standard |-> -5, daylight |-> -4,
   fallBack |-> (24 * DayNumber([yyyy |-> 2024, mm |-> 11, dd |-> 3])) + 6]

Zones == {ZoneUTC, ZoneBerlin, ZoneNewYork}

\* the offset of local time from UTC at an instant
OffsetAt(instant) == IF instant < zone.fallBack THEN zone.daylight ELSE zone.standard

\* the instant at which the local clock shows the wall time `wall`
FromLocal(wall) ==
  IF wall - zone.daylight < zone.fallBack THEN wall - zone.daylight
  ELSE wall - zone.standard

\* date.setDate(date.getDate() - 1): the same local time one local day earlier
SetDateBack(instant) == FromLocal((instant + OffsetAt(instant)) - 24)

(***************************************************************************)
(* The seeded generator of the daily puzzle                                *)
(***************************************************************************)
Golden == <<27947, 31221>>   \* 0x6d2b79f5

\* the three assignments to t in the closure of seededRandom, state being s
Scramble(s) == Imul(Xor32(s, Shr32(s, 15)), Or32(s, 1))
Stir(t) == Xor32(Add32(t, Imul(Xor32(t, Shr32(t, 7)), Or32(t, 61))), t)
Temper(s) == Xor32(Stir(Scramble(s)), Shr32(Stir(Scramble(s)), 14))

\* One call of the closure returned by seededRandom, on its captured seed:
\* <<the seed it leaves, the 32-bit numerator of the value it returns>>.
seededRandom(seed) == <<Add32(seed, Golden), Temper(Add32(seed, Golden))>>

RECURSIVE HashFrom(_, _, _)
HashFrom(dateStr, i, hash) ==
  IF i > Len(dateStr) \/ hash \notin Word32 THEN hash
  ELSE HashFrom(dateStr, i + 1,
                Add32(Add32(Imul(hash, <<0, 32>>), Neg32(hash)), <<0, dateStr[i]>>))

\* a seed that also depends on how many calls came before
dateToSeedOfCall(dateStr) == HashFrom(dateStr, 1, <<0, started>>)

\* dateToSeed: the rolling hash, then Math.abs of the signed 32-bit value
dateToSeed(dateStr) ==
  LET hash == HashFrom(dateStr, 1, <<0, 0>>)
  IN IF hash[1] >= 32768 THEN Neg32(hash) ELSE hash

(***************************************************************************)
(* Geometry: a snapshot is the feature list a topology document decodes    *)
(* to; a feature covers a set of 45 x 90 degree cells.                     *)
(***************************************************************************)
CellOf(lat, lng) == <<lat \div 450000, lng \div 900000>>

geoContains(feat, lat, lng) == CellOf(lat, lng) \in feat.cells

CountrySnapshots == {"countriesA", "countriesB"}
LandSnapshots == {"landA", "landB", "landNone"}

Features(snapshot) ==
  CASE snapshot = "countriesA" ->
         << [id |-> NULL, name |-> NULL, cells |-> {<<0, 0>>}],
            [id |-> "250", name |-> "France", cells |-> {<<0, 0>>, <<1, 0>>}],
            [id |-> "-99", name |-> "Kosovo", cells |-> {<<0, 1>>}],
            [id |-> "76", name |-> "Brazil", cells |-> {<<-1, -1>>}] >>
    [] snapshot = "countriesB" ->
         << [id |-> "826", name |-> "United Kingdom", cells |-> {<<1, -1>>, <<0, -1>>}],
            [id |-> "-99", name |-> NULL, cells |-> {<<-1, 0>>}] >>
    [] snapshot = "landA" ->
         << [id |-> NULL, name |-> NULL,
              cells |-> {<<0, 0>>, <<1, 0>>, <<-1, -1>>, <<1, -2>>}] >>
    [] snapshot = "landB" ->
         << [id |-> NULL, name |-> NULL, cells |-> {<<-1, -2>>, <<0, 1>>}] >>
    [] snapshot = "landNone" -> << >>

\* the entries of countryNames that the snapshots use
countryNames ==
  [id \in {"76", "250", "826"} |->
     CASE id = "76" -> "Brazil" [] id = "250" -> "France" [] id = "826" -> "United Kingdom"]

\* a containment test that accepts every point
isOnLandAnywhere(lat, lng, features) == TRUE

isOnLand(lat, lng, features) ==
  \E i \in 1..Len(features) : geoContains(features[i], lat, lng)

RECURSIVE CountryFrom(_, _, _, _)
CountryFrom(lat, lng, features, i) ==
  IF i > Len(features) THEN NULL
  ELSE LET feat == features[i] IN
       IF geoContains(feat, lat, lng)
       THEN IF feat.id # NULL /\ feat.id \in DOMAIN countryNames THEN countryNames[feat.id]
            ELSE IF feat.name # NULL THEN feat.name
            ELSE CountryFrom(lat, lng, features, i + 1)
       ELSE CountryFrom(lat, lng, features, i + 1)

getCountryAtPoint(lat, lng, features) == CountryFrom(lat, lng, features, 1)

isPointOnLand(lat, lng, land) ==
  \E i \in 1..Len(land) : geoContains(land[i], lat, lng)

(***************************************************************************)
(* Objects                                                                 *)
(***************************************************************************)
UNDEF == "undefined"
NoData == [x \in {} |-> UNDEF]

Get(obj, key) == IF key \in DOMAIN obj THEN obj[key] ELSE UNDEF

\* obj[keys[1]] || obj[keys[2]] || ...
RECURSIVE OrChain(_, _)
OrChain(obj, keys) ==
  IF keys = << >> THEN UNDEF
  ELSE IF Get(obj, Head(keys)) # UNDEF THEN obj[Head(keys)]
  ELSE OrChain(obj, Tail(keys))

\* the two parts of a name the other way round
JoinReversed(a, b) == <<b, ", ", a>>

\* a displayed name is the tuple of its parts: `${a}, ${b}`, or a alone
CommaJoin(a, b) == <<a, ", ", b>>
Plain(a) == <<a>>

(***************************************************************************)
(* Calls, requests and the synchronous code segments                       *)
(***************************************************************************)
ThrottleMs == 1000
maxAttempts == 1000

Paris == [lat |-> 488566, lng |-> 23522]
London == [lat |-> 515074, lng |-> -1278]

NewCall(op, lat, lng) ==
  [op |-> op, pc |-> "start", lat |-> lat, lng |-> lng, wakeAt |-> 0,
   dateStr |-> << >>, seed |-> <<0, 0>>, exhausted |-> FALSE, geom |-> NULL,
   loadReq |-> 0, awaitReq |-> 0, awaitValue |-> NULL, remote |-> NoData, value |-> NULL,
   snapshot |-> NoData]

NewRequest(url) == [url |-> url, at |-> now, status |-> "pending", result |-> NULL]

\* what synchronous code reads and writes
World ==
  [calls |-> calls, requests |-> requests, last |-> lastNominatimRequest,
   landFeatures |-> landFeatures, loadingPromise |-> loadingPromise,
   landGeometry |-> landGeometry, puzzles |-> puzzles, started |-> started]

Apply(w) ==
  /\ calls' = w.calls
  /\ requests' = w.requests
  /\ lastNominatimRequest' = w.last
  /\ landFeatures' = w.landFeatures
  /\ loadingPromise' = w.loadingPromise
  /\ landGeometry' = w.landGeometry
  /\ puzzles' = w.puzzles
  /\ started' = w.started

SetCall(w, c, fields) == [w EXCEPT !.calls[c] = fields @@ @]

\* loadLandData() without the shared promise: a fetch per caller until the
\* features are cached
loadLandDataUnshared(w, c, pc) ==
  IF w.landFeatures # NULL
  THEN SetCall(w, c, [pc |-> pc, awaitReq |-> 0, awaitValue |-> w.landFeatures])
  ELSE SetCall([w EXCEPT !.requests = Append(@, NewRequest("countries")),
                         !.loadingPromise = Len(w.requests) + 1],
               c, [pc |-> pc, awaitReq |-> Len(w.requests) + 1])

\* loadLandData() that fetches again once the shared promise has rejected
loadLandDataRetrying(w, c, pc) ==
  IF w.landFeatures # NULL
  THEN SetCall(w, c, [pc |-> pc, awaitReq |-> 0, awaitValue |-> w.landFeatures])
  ELSE IF w.loadingPromise # 0 /\ w.requests[w.loadingPromise].status # "failed"
  THEN SetCall(w, c, [pc |-> pc, awaitReq |-> w.loadingPromise])
  ELSE LET r == Len(w.requests) + 1 IN
       SetCall([w EXCEPT !.requests = Append(@, NewRequest("countries")),
                         !.loadingPromise = r],
               c, [pc |-> pc, awaitReq |-> r])

\* call c calls loadLandData() and awaits what it returns
loadLandData(w, c, pc) ==
  IF w.landFeatures # NULL
  THEN SetCall(w, c, [pc |-> pc, awaitReq |-> 0, awaitValue |-> w.landFeatures])
  ELSE IF w.loadingPromise # 0
  THEN SetCall(w, c, [pc |-> pc, awaitReq |-> w.loadingPromise])
  ELSE LET r == Len(w.requests) + 1 IN
       SetCall([w EXCEPT !.requests = Append(@, NewRequest("countries")),
                         !.loadingPromise = r],
               c, [pc |-> pc, awaitReq |-> r])

\* the tail of throttledFetch: stamp the request time and fetch
Dispatch(w, c) ==
  SetCall([w EXCEPT !.last = now,
                    !.requests = Append(@, NewRequest("nominatim"))],
          c, [pc |-> "fetching", awaitReq |-> Len(w.requests) + 1])

\* call c enters reverseGeocodeDetailed(lat, lng), which enters throttledFetch
throttledFetch(w, c) ==
  LET timeSinceLastRequest == now - w.last IN
  IF timeSinceLastRequest < ThrottleMs
  THEN SetCall(w, c, [pc |-> "throttled",
                      wakeAt |-> now + (ThrottleMs - timeSinceLastRequest)])
  ELSE Dispatch(w, c)

\* the DetailedLocation built from a parsed response body
DetailsOf(data) ==
  LET address == IF "address" \in DOMAIN data THEN data.address ELSE NoData
      city == OrChain(address, <<"city", "town", "village", "hamlet", "municipality">>)
      state == OrChain(address, <<"state", "region", "province", "county">>)
      country == IF Get(address, "country") # UNDEF THEN address.country ELSE "Unknown"
      landmark == OrChain(address, <<"tourism", "historic", "amenity", "leisure", "natural",
                                     "man_made", "building", "aeroway", "military">>)
      neighbourhood == OrChain(address, <<"neighbourhood", "suburb", "district">>)
      displayName ==
        IF landmark # UNDEF THEN Plain(landmark)
        ELSE IF city # UNDEF /\ state # UNDEF THEN CommaJoin(city, state)
        ELSE IF city # UNDEF THEN CommaJoin(city, country)
        ELSE IF neighbourhood # UNDEF /\ state # UNDEF THEN CommaJoin(neighbourhood, state)
        ELSE IF state # UNDEF THEN CommaJoin(state, country)
        ELSE Plain(country)
  IN [city |-> city, state |-> state, country |-> country, displayName |-> displayName,
      landmark |-> landmark, neighbourhood |-> neighbourhood]

\* the Puzzle that generatePuzzle / getDailyPuzzle build around `details`
PuzzleOf(call, details) ==
  [id |-> IF call.op = "getDailyPuzzle" THEN DailyPrefix \o call.dateStr
          ELSE PuzzlePrefix \o <<now>>,
   location |->
     [id |-> IF call.op = "getDailyPuzzle" THEN DailyLocPrefix \o call.dateStr
             ELSE LocPrefix \o <<now>>,
      lat |-> call.lat, lng |-> call.lng,
      country |-> details.country, city |-> Get(details, "city"),
      state |-> Get(details, "state"), landmark |-> Get(details, "landmark")]]

\* reverseGeocodeDetailed of call c resolves to `details`; its caller goes on
ResolveDetails(w, c, details) ==
  IF w.calls[c].op = "reverseGeocodeDetailed"
  THEN SetCall(w, c, [pc |-> "resolved", value |-> details])
  ELSE IF w.calls[c].op = "submitGuess"
  THEN SetCall(w, c, [pc |-> "geocoded", value |-> details])
  ELSE LET puzzle == PuzzleOf(w.calls[c], details) IN
       SetCall([w EXCEPT !.puzzles =
                  @ \cup {[page |-> page, op |-> w.calls[c].op, dateStr |-> w.calls[c].dateStr,
                            geom |-> w.calls[c].geom, puzzle |-> puzzle]}],
               c, [pc |-> "resolved", value |-> puzzle])

\* the promise call c awaits: settled?  and with what
Settled(c) ==
  IF calls[c].awaitReq = 0 THEN TRUE ELSE requests[calls[c].awaitReq].status # "pending"
\* a failed load read as a geometry without land
AwaitedOrEmpty(c) ==
  IF calls[c].awaitReq = 0 THEN [status |-> "ok", result |-> calls[c].awaitValue]
  ELSE IF requests[calls[c].awaitReq].status = "ok" THEN requests[calls[c].awaitReq]
  ELSE [status |-> "ok", result |-> "landNone"]

Awaited(c) ==
  IF calls[c].awaitReq = 0 THEN [status |-> "ok", result |-> calls[c].awaitValue]
  ELSE requests[calls[c].awaitReq]

(***************************************************************************)
(* The point samplers                                                      *)
(***************************************************************************)
\* Math.random() * 130 - 60 and Math.random() * 360 - 180
RandomValues == 0..(RandSteps - 1)
RandomLat(k) == ((k * 1300000) \div RandSteps) - 600000
RandomLng(k) == ((k * 3600000) \div RandSteps) - 1800000

\* The runs of the loop of generateRandomLandPoint: `attempts` draws that are
\* not on land, then a draw on land, or Paris once maxAttempts were rejected.
generateRandomLandPoint(features) ==
  LET draws == {[lat |-> RandomLat(a), lng |-> RandomLng(b)] : a, b \in RandomValues}
      onLand == {d \in draws : isOnLand(d.lat, d.lng, features)}
      rejectable == draws # onLand
  IN {[lat |-> d.lat, lng |-> d.lng, exhausted |-> FALSE] :
        d \in {e \in onLand : \E attempts \in 0..(maxAttempts - 1) :
                                 attempts = 0 \/ rejectable}}
     \cup {[lat |-> Paris.lat, lng |-> Paris.lng, exhausted |-> TRUE] :
             attempts \in {n \in {maxAttempts} : rejectable \/ n = 0}}

IterStep == 12345
DailyAttempts == 1000

\* the candidate of iteration i: iterSeed = seededRandom(seed + i * 12345), then
\* iterSeed() * 140 - 70 and iterSeed() * 360 - 180, rounded down to a degree
DailyDraws(first) ==
  [lat |-> (ScaleTo(first[2], 140) - 70) * 10000,
   lng |-> (ScaleTo(seededRandom(first[1])[2], 360) - 180) * 10000]
DailyCandidate(seed, i) == DailyDraws(seededRandom(Add32(seed, Mul16(i, IterStep))))

\* the test of one iteration of generateSeededLandPoint
DailyHit(candidate, land) == isPointOnLand(candidate.lat, candidate.lng, land)

\* the iteration of the loop that returns, or DailyAttempts when none does
DailyLast(seed, land) ==
  CHOOSE k \in 0..DailyAttempts :
    /\ k < DailyAttempts => DailyHit(DailyCandidate(seed, k), land)
    /\ \A j \in 0..(k - 1) : ~DailyHit(DailyCandidate(seed, j), land)

DailyPoint(candidate, last) ==
  IF last < DailyAttempts
  THEN [lat |-> candidate.lat, lng |-> candidate.lng, exhausted |-> FALSE]
  ELSE [lat |-> London.lat, lng |-> London.lng, exhausted |-> TRUE]

\* the loop of generateSeededLandPoint: the first candidate on land, else London
generateSeededLandPoint(seed, land) ==
  DailyPoint(DailyCandidate(seed, DailyLast(seed, land)), DailyLast(seed, land))

(***************************************************************************)
(* The environment's inputs                                                *)
(***************************************************************************)
QueryPoints == {Paris, [lat |-> 0, lng |-> -300000]}

\* fetch: rejected or resolved; ok: response.ok; json: response.json() rejected,
\* or the value it parsed (JSON null, or an object)
Response(fetch, ok, json, data) == [fetch |-> fetch, ok |-> ok, json |-> json, data |-> data]
NetworkError == Response("rejected", FALSE, "rejected", NoData)
HttpError == Response("resolved", FALSE, "object", [error |-> "Too Many Requests"])
BadJson == Response("resolved", TRUE, "rejected", NoData)
JsonNull == Response("resolved", TRUE, "null", NoData)
NoAddress == Response("resolved", TRUE, "object", [error |-> "Unable to geocode"])
NoCountry == Response("resolved", TRUE, "object", [address |-> [village |-> "Grytviken"]])
CityState ==
  Response("resolved", TRUE, "object",
           [address |-> [city |-> "Paris", state |-> "Ile-de-France", country |-> "France"]])

Responses == {NetworkError, HttpError, BadJson, JsonNull, NoAddress, NoCountry, CityState}
FewResponses == {NetworkError, CityState}
Answers == {NoCountry, CityState}

\* the try block without its response.ok test
ThrowsUnchecked(resp) ==
  resp.fetch = "rejected" \/ resp.json = "rejected" \/ resp.json = "null"

\* the remote lookup threw inside the try block of reverseGeocodeDetailed
Throws(resp) ==
  resp.fetch = "rejected" \/ ~resp.ok \/ resp.json = "rejected" \/ resp.json = "null"

(***************************************************************************)
(* The statistics kept in localStorage.  A GameResult is modelled by the   *)
(* three fields saveResult reads: distanceKm, zoomLevel and country ("" for *)
(* none).  medianDistance holds twice the median and averageZoomLevel the   *)
(* pair <<sum, count>>, so that both stay in the integers.                  *)
(***************************************************************************)
Infinity == 2147483647
HistoryCap == 100
RecentCap == 10

NoEntries == [k \in {} |-> 0]

InitialStats ==
  [totalRounds |-> 0, medianDistance |-> 0, averageZoomLevel |-> <<0, 0>>,
   bestDistance |-> Infinity, worstDistance |-> 0, recentResults |-> << >>,
   countriesVisited |-> NoEntries, continentCounts |-> NoEntries]

countryToContinent ==
  [France |-> "Europe", Brazil |-> "South America", Japan |-> "Asia"]

\* a localStorage item: after setItem(key, JSON.stringify(json)), after
\* removeItem(key) (`json` is then the value its getter falls back on), and
\* holding a string that JSON.parse throws on
Unparsed(json) == [has |-> TRUE, parses |-> FALSE, json |-> json]
Stored(json) == [has |-> TRUE, parses |-> TRUE, json |-> json]
Removed(json) == [has |-> FALSE, parses |-> TRUE, json |-> json]

\* try { stored ? JSON.parse(stored) : fallback } catch { fallback }
Parsed(item, fallback) == IF item.has /\ item.parses THEN item.json ELSE fallback

\* getStats: the stored object spread over a shallow copy of defaultStats
getStats == IF storedStats.has /\ storedStats.parses THEN storedStats.json @@ defaultStats ELSE defaultStats

getResults == Parsed(storedResults, << >>)

getSavedMaps == Parsed(storedMaps, << >>)

\* the oldest n results kept instead of the newest
OldestOf(arr, n) == IF Len(arr) <= n THEN arr ELSE SubSeq(arr, 1, n)

\* arr.slice(-n)
LastOf(arr, n) == IF Len(arr) <= n THEN arr ELSE SubSeq(arr, Len(arr) - n + 1, Len(arr))

\* the end of the array kept instead of its start
EndOf(arr, n) == IF Len(arr) > n THEN SubSeq(arr, (Len(arr) - n) + 1, Len(arr)) ELSE arr

\* arr.slice(0, n)
FirstOf(arr, n) == IF Len(arr) <= n THEN arr ELSE SubSeq(arr, 1, n)

\* [...arr].sort((a, b) => a - b)[k], k counted from 0
SortedAt(arr, k) ==
  CHOOSE v \in {arr[i] : i \in DOMAIN arr} :
    /\ Cardinality({i \in DOMAIN arr : arr[i] < v}) <= k
    /\ k < Cardinality({i \in DOMAIN arr : arr[i] <= v})

\* calculateMedian, doubled
calculateMedian(arr) ==
  IF Len(arr) = 0 THEN 0
  ELSE IF Len(arr) % 2 # 0 THEN 2 * SortedAt(arr, Len(arr) \div 2)
  ELSE SortedAt(arr, (Len(arr) \div 2) - 1) + SortedAt(arr, Len(arr) \div 2)

\* arr.reduce((a, b) => a + b, 0), summed value by value
RECURSIVE SumOver(_, _)
SumOver(values, arr) ==
  IF values = {} THEN 0
  ELSE LET v == CHOOSE x \in values : TRUE
       IN (v * Cardinality({i \in DOMAIN arr : arr[i] = v})) + SumOver(values \ {v}, arr)

Sum(arr) == SumOver({arr[i] : i \in DOMAIN arr}, arr)

MathMin(a, b) == IF a < b THEN a ELSE b
MathMax(a, b) == IF a > b THEN a ELSE b

\* the entry of result.country in stats.countriesVisited after the update
CountryEntry(visited, result) ==
  LET before == IF result.country \in DOMAIN visited THEN visited[result.country]
                ELSE [count |-> 0, bestDistance |-> Infinity, totalDistance |-> 0,
                      bestZoomLevel |-> 0]
      better == result.distanceKm < before.bestDistance
  IN [count |-> before.count + 1,
      bestDistance |-> IF better THEN result.distanceKm ELSE before.bestDistance,
      bestZoomLevel |-> IF better THEN result.zoomLevel ELSE before.bestZoomLevel,
      totalDistance |-> before.totalDistance + result.distanceKm]

Continent(country) ==
  IF country \in DOMAIN countryToContinent THEN countryToContinent[country] ELSE "Unknown"

Bumped(counts, key) ==
  (key :> ((IF key \in DOMAIN counts THEN counts[key] ELSE 0) + 1)) @@ counts

\* the PlayerStats saveResult(result) stores and returns
saveResult(result) ==
  LET results == Append(getResults, result)
      stats == getStats
  IN [totalRounds |-> stats.totalRounds + 1,
      medianDistance |-> calculateMedian([i \in DOMAIN results |-> results[i].distanceKm]),
      bestDistance |-> MathMin(stats.bestDistance, result.distanceKm),
      worstDistance |-> MathMax(stats.worstDistance, result.distanceKm),
      averageZoomLevel |-> <<Sum([i \in DOMAIN results |-> results[i].zoomLevel]),
                             Len(results)>>,
      recentResults |-> LastOf(results, RecentCap),
      countriesVisited |->
        IF result.country # ""
        THEN (result.country :> CountryEntry(stats.countriesVisited, result))
             @@ stats.countriesVisited
        ELSE stats.countriesVisited,
      continentCounts |->
        IF result.country # ""
        THEN Bumped(stats.continentCounts, Continent(result.country))
        ELSE stats.continentCounts]

ResultInputs ==
  {[distanceKm |-> 0, zoomLevel |-> 3, country |-> "France"],
   [distanceKm |-> 10, zoomLevel |-> 5, country |-> ""]}

\* the places where a result differs from the one saved before it
Changes(results) ==
  Cardinality({i \in 1..(Len(results) - 1) : results[i] # results[i + 1]})

\* saveResult(result) is called; without a stored item the countriesVisited
\* and continentCounts it updates are the objects defaultStats holds
StoreResult(result) ==
  /\ storedResults' = Stored(LastOf(Append(getResults, result), HistoryCap))
  /\ storedStats' = Stored(saveResult(result))
  /\ defaultStats' =
       IF storedStats.has /\ storedStats.parses THEN defaultStats
       ELSE [defaultStats EXCEPT
               !.countriesVisited = saveResult(result).countriesVisited,
               !.continentCounts = saveResult(result).continentCounts]
  /\ submitted' = Append(submitted, result)

\* saveResult(result) is called by itself
SaveResult(result) ==
  /\ getStats.totalRounds < MaxSaves
  /\ Changes(Append(getResults, result)) <= MaxChanges
  /\ StoreResult(result)
  /\ UNCHANGED <<geoVars, dailyVars, probeVars, sideVars, uiVars>>

\* clearAllStats(), from the dialog of the Stats page, whose button is
\* disabled while totalRounds is 0
ClearAllStats ==
  /\ getStats.totalRounds # 0
  /\ storedStats' = Removed(InitialStats)
  /\ storedResults' = Removed(<< >>)
  /\ UNCHANGED <<geoVars, defaultStats, submitted, dailyVars, probeVars, sideVars, uiVars>>

(***************************************************************************)
(* getDistanceBand.  Distances are in units of 100 m.                      *)
(***************************************************************************)
Band(below, label, tier) == [below |-> below, label |-> label, tier |-> tier]

\* the bands in the order of the if statements; the last has no upper bound
Bands ==
  <<Band(25, "Pinpoint Accuracy", "excellent"), Band(75, "Incredible!", "excellent"),
    Band(200, "Very Close", "excellent"), Band(400, "Close", "good"),
    Band(700, "Nearby", "good"), Band(1200, "Regional", "good"),
    Band(2000, "Distant", "fair"), Band(3000, "Farther Away", "fair"),
    Band(4500, "Very Distant", "fair"), Band(6000, "Long Haul", "far"),
    Band(8000, "Far Away", "far"), Band(10000, "Very Far", "far"),
    Band(14000, "Other Side of the World", "far"), Band(0, "Furthest Possible", "far")>>

\* the first if statement whose test distanceKm < below succeeds, or the
\* final return
BandIndex(distance) ==
  CHOOSE i \in DOMAIN Bands :
    /\ i < Len(Bands) => distance < Bands[i].below * 10
    /\ \A j \in 1..(i - 1) : ~(distance < Bands[j].below * 10)

\* the bands looked up from the far end
getDistanceBandBackwards(distance) ==
  [label |-> Bands[(Len(Bands) + 1) - BandIndex(distance)].label,
   tier |-> Bands[(Len(Bands) + 1) - BandIndex(distance)].tier]

getDistanceBand(distance) ==
  [label |-> Bands[BandIndex(distance)].label, tier |-> Bands[BandIndex(distance)].tier]

\* the distances tried: each bound, the distance just below it, and the ends
Distances ==
  {0, 200000} \cup {Bands[i].below * 10 : i \in 1..(Len(Bands) - 1)}
    \cup {(Bands[i].below * 10) - 1 : i \in 1..(Len(Bands) - 1)}

\* getDistanceBand is called with each of the two distances of the probe
GetDistanceBand ==
  /\ ~probed.done
  /\ probed' = [done |-> TRUE,
                value |-> <<getDistanceBand(probe[1]), getDistanceBand(probe[2])>>]
  /\ UNCHANGED <<geoVars, storedResults, storedStats, defaultStats, submitted, dailyVars, sideVars, probe,
                 uiVars>>

(***************************************************************************)
(* The address objects a remote response may carry                         *)
(***************************************************************************)
FullAddress ==
  [tourism |-> "Louvre", military |-> "Fort Neuf", city |-> "Paris", village |-> "Giverny",
   state |-> "Ile-de-France", county |-> "Eure", neighbourhood |-> "Le Marais",
   district |-> "4e", country |-> "France"]

Addresses == {[k \in keys |-> FullAddress[k]] : keys \in SUBSET (DOMAIN FullAddress)}

\* the try block of reverseGeocodeDetailed builds the DetailedLocation of a
\* response whose address is the probe
BuildDetails ==
  /\ ~probed.done
  /\ probed' = [done |-> TRUE, value |-> DetailsOf([address |-> probe])]
  /\ UNCHANGED <<geoVars, storedResults, storedStats, defaultStats, submitted, dailyVars, sideVars, probe,
                 uiVars>>

(***************************************************************************)
(* The daily history in localStorage.  A DailyResult is modelled by its    *)
(* date and distanceKm.                                                    *)
(***************************************************************************)
DailyCap == 30

getDailyResults == Parsed(storedDaily, << >>)

\* a marker that only records that some daily game was played
hasDailyEverBeenPlayed == storedPlayed.has

hasDailyBeenPlayed == storedPlayed.has /\ storedPlayed.value = getTodayDateString

\* arr.sort((a, b) => b.date.localeCompare(a.date)), a stable sort: the merge
\* of two sorted runs, from a[i] and b[j] on, and the sort by halves
RECURSIVE MergeDesc(_, _, _, _, _)
MergeDesc(a, b, i, j, merged) ==
  IF i > Len(a) THEN merged \o SubSeq(b, j, Len(b))
  ELSE IF j > Len(b) THEN merged \o SubSeq(a, i, Len(a))
  ELSE IF StrLess(a[i].date, b[j].date)
  THEN MergeDesc(a, b, i, j + 1, Append(merged, b[j]))
  ELSE MergeDesc(a, b, i + 1, j, Append(merged, a[i]))

RECURSIVE SortDesc(_)
SortDesc(arr) ==
  IF Len(arr) <= 1 THEN arr
  ELSE MergeDesc(SortDesc(SubSeq(arr, 1, Len(arr) \div 2)),
                 SortDesc(SubSeq(arr, (Len(arr) \div 2) + 1, Len(arr))), 1, 1, << >>)

\* results.filter(r => r.date !== result.date)
OtherDates(results, result) == SelectSeq(results, LAMBDA r : r.date # result.date)

\* the result filtered out and never pushed
dropDailyResult(results, result) == OtherDates(results, result)

\* the new result appended to everything stored before
appendDailyResult(results, result) == FirstOf(SortDesc(Append(results, result)), DailyCap)

\* the list saveDailyResult(result) stores
saveDailyResult(results, result) ==
  FirstOf(SortDesc(Append(OtherDates(results, result), result)), DailyCap)

DailyDistances == {5, 7}

\* the retained results that are not the first of their day
Replays(results) == Cardinality({i \in DOMAIN results : results[i].distanceKm # 5})

\* saveDailyResult(result): the sorted list is stored, then markDailyAsPlayed()
StoreDailyResult(result) ==
  /\ storedDaily' = Stored(saveDailyResult(getDailyResults, result))
  /\ lastDaily' = [has |-> TRUE, result |-> result]
  /\ storedPlayed' = [has |-> TRUE, value |-> getTodayDateString]

\* getTodaysResult(): results.find(r => r.date === today) || null
getTodaysResult ==
  LET found == {i \in DOMAIN getDailyResults : getDailyResults[i].date = getTodayDateString}
  IN IF found = {} THEN [has |-> FALSE, result |-> NoData]
     ELSE [has |-> TRUE,
           result |-> getDailyResults[CHOOSE i \in found : \A j \in found : i <= j]]

\* saveDailyResult(result) is called with the result of today's daily game
SaveDailyResult(distanceKm) ==
  /\ distanceKm # 5 => hasDailyBeenPlayed
  /\ StoreDailyResult([date |-> getTodayDateString, distanceKm |-> distanceKm])
  /\ Replays(storedDaily'.json) <= MaxReplays
  /\ UNCHANGED <<geoVars, storedResults, storedStats, defaultStats, submitted, zone, probeVars, sideVars,
                 uiVars>>

(***************************************************************************)
(* getDailyStreak                                                          *)
(***************************************************************************)
\* the loop over `sorted` that counts the current streak, from sorted[i] on
RECURSIVE CurrentStreak(_, _, _, _)
CurrentStreak(sorted, i, checkDate, currentStreak) ==
  IF i > Len(sorted) THEN currentStreak
  ELSE IF sorted[i].date = ISODate(checkDate)
  THEN CurrentStreak(sorted, i + 1, SetDateBack(checkDate), currentStreak + 1)
  ELSE IF StrLess(sorted[i].date, ISODate(checkDate)) THEN currentStreak
  ELSE CurrentStreak(sorted, i + 1, checkDate, currentStreak)

\* the loop that looks for the best streak, from sorted[i] on (i counts from 1)
RECURSIVE BestStreak(_, _, _, _)
BestStreak(sorted, i, tempStreak, bestStreak) ==
  IF i > Len(sorted) THEN bestStreak
  ELSE IF ISODate(SetDateBack(NewDate(sorted[i - 1].date))) = sorted[i].date
  THEN BestStreak(sorted, i + 1, tempStreak + 1, MathMax(bestStreak, tempStreak + 1))
  ELSE BestStreak(sorted, i + 1, 1, bestStreak)

\* checkDate before the first loop
FirstCheckDate(sorted) ==
  IF \E i \in DOMAIN sorted : sorted[i].date = getTodayDateString
  THEN NewDate(getTodayDateString)
  ELSE SetDateBack(NewDate(getTodayDateString))

\* the best streak counted up from 0 instead of from the current streak
StreakFromZero(sorted) ==
  [current |-> CurrentStreak(sorted, 1, FirstCheckDate(sorted), 0),
   best |-> BestStreak(sorted, 2, 1, 0)]

StreakOf(sorted) ==
  [current |-> CurrentStreak(sorted, 1, FirstCheckDate(sorted), 0),
   best |-> BestStreak(sorted, 2, 1, CurrentStreak(sorted, 1, FirstCheckDate(sorted), 0))]

getDailyStreak ==
  IF Len(getDailyResults) = 0 THEN [current |-> 0, best |-> 0]
  ELSE StreakOf(SortDesc(getDailyResults))

(***************************************************************************)
(* playerProfile: names are sequences of character codes                   *)
(***************************************************************************)
Space == 32

\* name.trim()
RECURSIVE Trim(_)
Trim(name) ==
  IF name = << >> THEN name
  ELSE IF Head(name) = Space THEN Trim(Tail(name))
  ELSE IF name[Len(name)] = Space THEN Trim(SubSeq(name, 1, Len(name) - 1))
  ELSE name

\* the item under PLAYER_NAME_KEY after setPlayerName(name)
setPlayerName(name) ==
  IF Len(Trim(name)) >= 2 /\ Len(Trim(name)) <= 20
  THEN [has |-> TRUE, value |-> Trim(name)]
  ELSE storedName

hasPlayerName == storedName.has /\ Len(storedName.value) >= 2

(***************************************************************************)
(* The useGame hook.  Its state is the GameState object; puzzle, guess and *)
(* result carry a flag `has` that is FALSE for null.                       *)
(***************************************************************************)
NoPuzzle == [has |-> FALSE, id |-> << >>, location |-> NoData]
NoGuess == [has |-> FALSE, lat |-> 0, lng |-> 0]
NoResult == [has |-> FALSE, distanceKm |-> 0, distanceBand |-> NoData, zoomUsed |-> 0]

\* the argument of useState
InitialGame ==
  [phase |-> "viewing", mode |-> "practice", puzzle |-> NoPuzzle, zoomStep |-> 0,
   maxZoomStepUsed |-> 0, guess |-> NoGuess, result |-> NoResult,
   dailyCompleted |-> hasDailyBeenPlayed]

\* calculateDistance for the points of the model, in units of 100 m: the
\* haversine distance from (0, -30) to Paris is 6252.8 km
calculateDistance(lat1, lng1, lat2, lng2) ==
  IF lat1 = lat2 /\ lng1 = lng2 THEN 0 ELSE 62528

\* ZOOM_LEVELS, from the closest view out, and the number of them
ZOOM_LEVELS == <<12, 10, 8, 6>>
MAX_ZOOM_STEPS == Len(ZOOM_LEVELS)

\* a zoomOut that does not stop at the last level
zoomOutFreely(prev) ==
  [prev EXCEPT !.zoomStep = @ + 1,
               !.maxZoomStepUsed = MathMax(@, prev.zoomStep + 1)]

\* the updater of zoomOut
zoomOut(prev) ==
  IF prev.zoomStep >= MAX_ZOOM_STEPS - 1 THEN prev
  ELSE [prev EXCEPT !.zoomStep = @ + 1,
                    !.maxZoomStepUsed = MathMax(@, prev.zoomStep + 1)]

\* the updater of zoomIn
zoomIn(prev) ==
  IF prev.zoomStep <= 0 THEN prev ELSE [prev EXCEPT !.zoomStep = @ - 1]

\* the state startPracticeGame sets
PracticeRound ==
  [phase |-> "viewing", mode |-> "practice", puzzle |-> NoPuzzle, zoomStep |-> 0,
   maxZoomStepUsed |-> 0, guess |-> NoGuess, result |-> NoResult,
   dailyCompleted |-> hasDailyBeenPlayed]

\* the updater of the first setState of startDailyGame when a name is stored
\* and the daily puzzle has not been played
DailyRound(prev) ==
  [prev EXCEPT !.phase = "viewing", !.mode = "daily", !.puzzle = NoPuzzle, !.zoomStep = 0,
               !.maxZoomStepUsed = 0, !.guess = NoGuess, !.result = NoResult]

\* a pending generatePuzzle() or getDailyPuzzle(), which reads the date when
\* it is called
PuzzleLoad(kind) == [kind |-> kind, dateStr |-> getTodayDateString]

\* the puzzle of Paris a pending load resolves to
ArrivedPuzzle(load) ==
  [has |-> TRUE] @@
  PuzzleOf([op |-> IF load.kind = "daily" THEN "getDailyPuzzle" ELSE "generatePuzzle",
            dateStr |-> load.dateStr, lat |-> Paris.lat, lng |-> Paris.lng],
           DetailsOf(CityState.data))

\* the puzzle of Paris that getDailyPuzzle or generatePuzzle resolved to
LoadedPuzzle(mode) == ArrivedPuzzle(PuzzleLoad(mode))

\* the hook after the puzzle of `mode` was loaded and openMap() was called
Placing(mode) ==
  [InitialGame EXCEPT !.phase = "placing", !.mode = mode, !.puzzle = LoadedPuzzle(mode)]

\* a state update that is never made
KeepState(prev, snapshot, distanceKm) == prev

\* the updater of the last setState of submitGuess
SetResultState(prev, snapshot, distanceKm) ==
  [prev EXCEPT !.phase = "result",
               !.result = [has |-> TRUE, distanceKm |-> distanceKm,
                           distanceBand |-> getDistanceBand(distanceKm),
                           zoomUsed |-> snapshot.maxZoomStepUsed],
               !.dailyCompleted = IF snapshot.mode = "daily" THEN TRUE ELSE @]

\* the GameResult and the DailyResult submitGuess builds for call c
GameResultOf(c) ==
  [distanceKm |-> calculateDistance(calls[c].lat, calls[c].lng,
                                    calls[c].snapshot.puzzle.location.lat,
                                    calls[c].snapshot.puzzle.location.lng),
   zoomLevel |-> calls[c].snapshot.maxZoomStepUsed,
   country |-> calls[c].snapshot.puzzle.location.country]

DailyResultOf(c) == [date |-> getTodayDateString, distanceKm |-> GameResultOf(c).distanceKm]

(***************************************************************************)
(* The HighScores page                                                     *)
(***************************************************************************)
LeaderboardTimeoutMs == 10000

NoBoard ==
  [mounted |-> FALSE, loading |-> TRUE, error |-> NULL, allScores |-> << >>, req |-> 0,
   deadline |-> 0, raced |-> FALSE]

\* what the GET request may settle with
BoardOutcomes == {"rows", "status 500", "network error", "not JSON"}

\* the rows of a successful response
Rows == <<[playerName |-> "Ada", distanceKm |-> 12]>>

\* the page state after the load effect ran to its end with `outcome`
Loaded(page_, outcome) ==
  IF outcome = "rows"
  THEN [page_ EXCEPT !.allScores = Rows, !.loading = FALSE, !.raced = TRUE]
  ELSE [page_ EXCEPT !.error = outcome, !.allScores = << >>, !.loading = FALSE,
                     !.raced = TRUE]

(***************************************************************************)
(* The leaderboard: postHighScore and the HighScores resource              *)
(***************************************************************************)
Dot == 46

\* the template literal of a non-negative integer
RECURSIVE Decimal(_)
Decimal(n) == IF n < 10 THEN <<DigitChar(n)>> ELSE Decimal(n \div 10) \o <<DigitChar(n % 10)>>

\* the template literal of a distance in km, which the model holds in units
\* of 100 m
NumberString(distanceKm) ==
  Decimal(distanceKm \div 10) \o
  (IF distanceKm % 10 = 0 THEN << >> ELSE <<Dot, DigitChar(distanceKm % 10)>>)

\* an id that tells the rounds of a day apart
HighScoreIdOfRound(result) ==
  result.date \o Dash \o result.playerName \o Dash \o NumberString(result.distanceKm)
    \o Dash \o Decimal(result.zoomLevel)

\* the id of the payload of postHighScore(result)
HighScoreId(result) ==
  result.date \o Dash \o result.playerName \o Dash \o NumberString(result.distanceKm)

\* the payload of postHighScore(result)
Payload(result) ==
  [id |-> HighScoreId(result), date |-> result.date, playerName |-> result.playerName,
   distanceKm |-> result.distanceKm, zoomLevel |-> result.zoomLevel]

\* what the store does with a record whose id it holds already
Collisions == {"rejected", "replaced"}

\* the rows of the store after create(record): rows are keyed by id
create(rows, record, collision) ==
  IF \E row \in rows : row.id = record.id
  THEN IF collision = "replaced"
       THEN {row \in rows : row.id # record.id} \cup {record}
       ELSE rows
  ELSE rows \cup {record}

(***************************************************************************)
(* Actions                                                                 *)
(***************************************************************************)
Started(op, lat, lng) ==
  [World EXCEPT !.calls = Append(@, NewCall(op, lat, lng)), !.started = @ + 1]

\* reverseGeocodeDetailed(lat, lng) is called
StartResolve(point, limit) ==
  /\ started < limit
  /\ Apply(throttledFetch(Started("reverseGeocodeDetailed", point.lat, point.lng),
                          Len(calls) + 1))
  /\ UNCHANGED <<statsVars, now, today, page>>

\* loadLandData() is called by itself
StartLoad ==
  /\ started < MaxCalls
  /\ Apply(loadLandData(Started("loadLandData", 0, 0), Len(calls) + 1, "awaitLoad"))
  /\ UNCHANGED <<statsVars, now, today, page>>

\* generatePuzzle() is called: generateRandomLandPoint awaits loadLandData()
StartPuzzle ==
  /\ started < MaxPuzzleCalls
  /\ Apply(loadLandData(Started("generatePuzzle", 0, 0), Len(calls) + 1, "awaitLoad"))
  /\ UNCHANGED <<statsVars, now, today, page>>

\* getLandGeometry(): the cached geometry, or a fetch of its own
getLandGeometry(w, c) ==
  IF w.landGeometry # NULL
  THEN SetCall(w, c, [pc |-> "awaitGeometry", awaitReq |-> 0,
                      awaitValue |-> w.landGeometry])
  ELSE SetCall([w EXCEPT !.requests = Append(@, NewRequest("land"))],
               c, [pc |-> "awaitGeometry", awaitReq |-> Len(w.requests) + 1])

\* getDailyPuzzle() is called: generateSeededLandPoint awaits getLandGeometry()
StartDaily ==
  /\ started < MaxPuzzleCalls
  /\ LET c == Len(calls) + 1
         dateStr == getTodayDateString
         w == SetCall(Started("getDailyPuzzle", 0, 0), c,
                      [dateStr |-> dateStr, seed |-> dateToSeed(dateStr)])
     IN Apply(getLandGeometry(w, c))
  /\ UNCHANGED <<statsVars, now, today, page>>

\* the fetch of the countries topology settles; on success the .then chain of
\* loadLandData decodes it and stores landFeatures
CountriesSettle(r, outcome) ==
  /\ requests[r].url = "countries" /\ requests[r].status = "pending"
  /\ IF outcome = "failed"
     THEN /\ requests' = [requests EXCEPT ![r].status = "failed"]
          /\ UNCHANGED landFeatures
     ELSE /\ requests' = [requests EXCEPT ![r].status = "ok", ![r].result = outcome]
          /\ landFeatures' = outcome
  /\ UNCHANGED <<statsVars, now, today, page, started, lastNominatimRequest, loadingPromise, landGeometry,
                 calls, puzzles>>

\* the fetch of the land topology settles; on success getLandGeometry decodes
\* it and stores landGeometry
LandSettle(r, outcome) ==
  /\ requests[r].url = "land" /\ requests[r].status = "pending"
  /\ IF outcome = "failed"
     THEN /\ requests' = [requests EXCEPT ![r].status = "failed"]
          /\ UNCHANGED landGeometry
     ELSE /\ requests' = [requests EXCEPT ![r].status = "ok", ![r].result = outcome]
          /\ landGeometry' = outcome
  /\ UNCHANGED <<statsVars, now, today, page, started, lastNominatimRequest, loadingPromise, landFeatures,
                 calls, puzzles>>

\* a direct loadLandData() call settles
LoadResolves(c) ==
  /\ calls[c].op = "loadLandData" /\ calls[c].pc = "awaitLoad" /\ Settled(c)
  /\ calls' = [calls EXCEPT ![c] =
       IF Awaited(c).status = "ok"
       THEN [pc |-> "resolved", value |-> Awaited(c).result] @@ @
       ELSE [pc |-> "rejected"] @@ @]
  /\ UNCHANGED <<statsVars, now, today, page, started, lastNominatimRequest, landFeatures, loadingPromise,
                 landGeometry, requests, puzzles>>

\* generateRandomLandPoint goes on after `await loadLandData()`; with a point,
\* generatePuzzle enters reverseGeocodeDetailed
GenerateRandomLandPoint(c) ==
  /\ calls[c].op = "generatePuzzle" /\ calls[c].pc = "awaitLoad" /\ Settled(c)
  /\ IF Awaited(c).status = "ok"
     THEN \E run \in generateRandomLandPoint(Features(Awaited(c).result)) :
            Apply(throttledFetch(
                    SetCall(World, c, [lat |-> run.lat, lng |-> run.lng,
                                       exhausted |-> run.exhausted,
                                       loadReq |-> calls[c].awaitReq,
                                       geom |-> Awaited(c).result]), c))
     ELSE Apply(SetCall(World, c, [pc |-> "rejected", loadReq |-> calls[c].awaitReq]))
  /\ UNCHANGED <<statsVars, now, today, page>>

\* generateSeededLandPoint goes on after `await getLandGeometry()`; with a
\* point, getDailyPuzzle enters reverseGeocodeDetailed
GenerateSeededLandPoint(c) ==
  /\ calls[c].op = "getDailyPuzzle" /\ calls[c].pc = "awaitGeometry" /\ Settled(c)
  /\ IF Awaited(c).status = "ok"
     THEN LET point == generateSeededLandPoint(calls[c].seed, Features(Awaited(c).result))
          IN Apply(throttledFetch(
                     SetCall(World, c, [lat |-> point.lat, lng |-> point.lng,
                                        exhausted |-> point.exhausted,
                                        loadReq |-> calls[c].awaitReq,
                                        geom |-> Awaited(c).result]), c))
     ELSE Apply(SetCall(World, c, [pc |-> "rejected", loadReq |-> calls[c].awaitReq]))
  /\ UNCHANGED <<statsVars, now, today, page>>

\* the setTimeout of throttledFetch fires
TimerFires(c) ==
  /\ calls[c].pc = "throttled" /\ now >= calls[c].wakeAt
  /\ Apply(Dispatch(World, c))
  /\ UNCHANGED <<statsVars, now, today, page>>

\* the Nominatim request of call c settles with `resp`: the rest of the try
\* block, or the catch block up to `await loadLandData()` in reverseGeocode
NominatimSettles(c, resp) ==
  /\ calls[c].pc = "fetching"
  /\ LET r == calls[c].awaitReq
         w == SetCall([World EXCEPT !.requests[r].status = "done"], c, [remote |-> resp])
     IN IF Throws(resp)
        THEN Apply(loadLandData(w, c, "awaitFallback"))
        ELSE Apply(ResolveDetails(w, c, DetailsOf(resp.data)))
  /\ UNCHANGED <<statsVars, now, today, page>>

\* reverseGeocode goes on after `await loadLandData()`, or catches its failure
FallbackResumes(c) ==
  /\ calls[c].pc = "awaitFallback" /\ Settled(c)
  /\ LET found == IF Awaited(c).status = "ok"
                  THEN getCountryAtPoint(calls[c].lat, calls[c].lng,
                                         Features(Awaited(c).result))
                  ELSE NULL
         country == IF found # NULL THEN found ELSE "Unknown Location"
     IN Apply(ResolveDetails(World, c, [country |-> country, displayName |-> Plain(country)]))
  /\ UNCHANGED <<statsVars, now, today, page>>

\* placePin(lat, lng), the map being shown
PlacePin(point) ==
  /\ game.phase = "placing"
  /\ game.guess # [has |-> TRUE, lat |-> point.lat, lng |-> point.lng]
  /\ game' = [game EXCEPT !.guess = [has |-> TRUE, lat |-> point.lat, lng |-> point.lng]]
  /\ UNCHANGED <<geoVars, storedResults, storedStats, defaultStats, submitted, dailyVars,
                 probeVars, sideVars, board>>

\* submitGuess() is called, the map being shown: the snapshot, the distance, then
\* reverseGeocodeDetailed of the guess is awaited
SubmitGuess ==
  /\ started < MaxSubmits
  /\ game.phase = "placing"
  /\ game.guess.has /\ game.puzzle.has
  /\ LET c == Len(calls) + 1
     IN Apply(throttledFetch(SetCall(Started("submitGuess", game.guess.lat, game.guess.lng),
                                     c, [snapshot |-> game]), c))
  /\ UNCHANGED <<statsVars, now, today, page>>

\* submitGuess goes on after the await: saveResult, in daily mode
\* saveDailyResult and postHighScore, then the setState of the result
SubmitGuessResumes(c) ==
  /\ calls[c].op = "submitGuess" /\ calls[c].pc = "geocoded"
  /\ StoreResult(GameResultOf(c))
  /\ IF calls[c].snapshot.mode = "daily"
     THEN /\ StoreDailyResult(DailyResultOf(c))
          /\ requests' = Append(requests, NewRequest("POST /HighScores/"))
          /\ calls' = [calls EXCEPT ![c] = [pc |-> "done", awaitReq |-> Len(requests) + 1] @@ @]
     ELSE /\ calls' = [calls EXCEPT ![c] = [pc |-> "done", awaitReq |-> 0] @@ @]
          /\ UNCHANGED <<storedDaily, storedPlayed, lastDaily, requests>>
  /\ game' = SetResultState(game, calls[c].snapshot, GameResultOf(c).distanceKm)
  /\ UNCHANGED <<now, today, page, started, lastNominatimRequest, landFeatures, loadingPromise,
                 landGeometry, puzzles, zone, probeVars, sideVars, board>>

\* the POST of postHighScore settles; a rejection goes to console.error
PostSettles(r, outcome) ==
  /\ requests[r].url = "POST /HighScores/" /\ requests[r].status = "pending"
  /\ requests' = [requests EXCEPT ![r].status = outcome]
  /\ UNCHANGED <<statsVars, now, today, page, started, lastNominatimRequest, landFeatures,
                 loadingPromise, landGeometry, calls, puzzles>>

\* the HighScores page is mounted: its load effect starts fetchAllHighScores,
\* the GET racing a timer
OpenHighScores ==
  /\ ~board.mounted /\ board.req = 0
  /\ board' = [NoBoard EXCEPT !.mounted = TRUE, !.req = Len(requests) + 1,
                              !.deadline = now + LeaderboardTimeoutMs]
  /\ requests' = Append(requests, NewRequest("GET /HighScores/"))
  /\ UNCHANGED <<now, today, page, started, lastNominatimRequest, landFeatures, loadingPromise,
                 landGeometry, calls, puzzles, storedResults, storedStats, defaultStats,
                 submitted, dailyVars, probeVars, sideVars, game>>

\* the GET settles; unless the timer won the race or the page is gone, the
\* load effect runs to its end
BoardSettles(r, outcome) ==
  /\ requests[r].url = "GET /HighScores/" /\ requests[r].status = "pending"
  /\ requests' = [requests EXCEPT ![r].status = IF outcome = "rows" THEN "ok" ELSE "failed"]
  /\ board' = IF board.raced \/ ~board.mounted THEN [board EXCEPT !.raced = TRUE]
              ELSE Loaded(board, outcome)
  /\ UNCHANGED <<now, today, page, started, lastNominatimRequest, landFeatures, loadingPromise,
                 landGeometry, calls, puzzles, storedResults, storedStats, defaultStats,
                 submitted, dailyVars, probeVars, sideVars, game>>

\* the timer of timeoutAfter fires before the GET has settled
BoardTimeout ==
  /\ board.req # 0 /\ ~board.raced
  /\ now >= board.deadline
  /\ board' = IF board.mounted THEN Loaded(board, "timed out") ELSE [board EXCEPT !.raced = TRUE]
  /\ UNCHANGED <<geoVars, storedResults, storedStats, defaultStats, submitted, dailyVars,
                 probeVars, sideVars, game>>

\* the HighScores page is left: the cleanup of the load effect
CloseHighScores ==
  /\ board.mounted
  /\ board' = [board EXCEPT !.mounted = FALSE]
  /\ UNCHANGED <<geoVars, storedResults, storedStats, defaultStats, submitted, dailyVars,
                 probeVars, sideVars, game>>

\* what no action of the hook touches, but for submitGuess
hookFrame ==
  <<geoVars, storedResults, storedStats, defaultStats, submitted, dailyVars, probeVars, board,
    storedMaps, table>>

\* startPracticeGame(), which playAgain() calls too
StartPracticeGame ==
  /\ Len(loads) < MaxLoads
  /\ game' = PracticeRound
  /\ loads' = Append(loads, PuzzleLoad("practice"))
  /\ UNCHANGED <<hookFrame, storedName>>

\* startDailyGame() up to its await
StartDailyGame ==
  /\ Len(loads) < MaxLoads
  /\ IF ~hasPlayerName
     THEN /\ game' = [game EXCEPT !.phase = "name-input", !.mode = "daily"]
          /\ UNCHANGED loads
     ELSE IF hasDailyBeenPlayed
     THEN UNCHANGED <<game, loads>>
     ELSE /\ game' = DailyRound(game)
          /\ loads' = Append(loads, PuzzleLoad("daily"))
  /\ UNCHANGED <<hookFrame, storedName>>

\* setPlayerName(name), as the name form calls it
SetPlayerName(name) ==
  /\ storedName' = setPlayerName(name)
  /\ UNCHANGED <<hookFrame, game, loads>>

\* continueAfterName() up to its await
ContinueAfterName ==
  /\ Len(loads) < MaxLoads
  /\ game' = [game EXCEPT !.phase = "viewing", !.puzzle = NoPuzzle]
  /\ loads' = Append(loads, PuzzleLoad("daily"))
  /\ UNCHANGED <<hookFrame, storedName>>

\* cancelNameInput()
CancelNameInput ==
  /\ Len(loads) < MaxLoads
  /\ game' = [game EXCEPT !.phase = "viewing", !.mode = "practice"]
  /\ loads' = IF ~game.puzzle.has \/ game.mode = "daily"
              THEN Append(loads, PuzzleLoad("practice")) ELSE loads
  /\ UNCHANGED <<hookFrame, storedName>>

\* the i-th pending load resolves: setState(prev => ({ ...prev, puzzle }))
PuzzleArrives(i) ==
  /\ game' = [game EXCEPT !.puzzle = ArrivedPuzzle(loads[i])]
  /\ loads' = SubSeq(loads, 1, i - 1) \o SubSeq(loads, i + 1, Len(loads))
  /\ UNCHANGED <<hookFrame, storedName>>

\* zoomOut(), the viewer being shown
ZoomOut ==
  /\ game.phase = "viewing" /\ game.puzzle.has
  /\ game' = zoomOut(game)
  /\ UNCHANGED <<hookFrame, storedName, loads>>

\* zoomIn(), the viewer being shown
ZoomIn ==
  /\ game.phase = "viewing" /\ game.puzzle.has
  /\ game' = zoomIn(game)
  /\ UNCHANGED <<hookFrame, storedName, loads>>

\* openMap(), the viewer being shown
OpenMap ==
  /\ game.phase = "viewing" /\ game.puzzle.has
  /\ game' = [game EXCEPT !.phase = "placing"]
  /\ UNCHANGED <<hookFrame, storedName, loads>>

\* backToViewing(), the map being shown
BackToViewing ==
  /\ game.phase = "placing" /\ game.puzzle.has
  /\ game' = [game EXCEPT !.phase = "viewing", !.guess = NoGuess]
  /\ UNCHANGED <<hookFrame, storedName, loads>>

\* postHighScore(result) and, on the server, post(target, data) of the
\* HighScores resource
PostHighScore(result, collision) ==
  /\ started < MaxPosts
  /\ started' = started + 1
  /\ table' = create(table, Payload(result) @@ [createdAt |-> now], collision)
  /\ UNCHANGED <<now, today, page, lastNominatimRequest, landFeatures, loadingPromise,
                 landGeometry, calls, requests, puzzles, storedResults, storedStats,
                 defaultStats, submitted, dailyVars, probeVars, uiVars, storedMaps, storedName,
                 loads>>

\* nothing happens for as long as the leaderboard timeout
Wait ==
  /\ now < PageLoadTime + (MaxWaits * LeaderboardTimeoutMs)
  /\ now' = now + LeaderboardTimeoutMs
  /\ UNCHANGED <<statsVars, today, page, started, lastNominatimRequest, landFeatures,
                 loadingPromise, landGeometry, calls, requests, puzzles>>

\* time passes
Tick ==
  /\ now < PageLoadTime + (MaxTicks * TickMs)
  /\ now' = now + TickMs
  /\ UNCHANGED <<statsVars, today, page, started, lastNominatimRequest, landFeatures, loadingPromise,
                 landGeometry, calls, requests, puzzles>>

\* local midnight passes
DateRolls(first, limit) ==
  /\ (DayNumber(today) - DayNumber(first)) + 1 < limit
  /\ today' = DateOf(DayNumber(today) + 1)
  /\ UNCHANGED <<statsVars, now, page, started, lastNominatimRequest, landFeatures, loadingPromise,
                 landGeometry, calls, requests, puzzles>>

\* the page is loaded again: every module starts afresh.  `damaged` are the
\* localStorage items that hold a string that is not JSON by then.
Reload(damaged) ==
  /\ page < MaxPages
  /\ storedResults' = IF "results" \in damaged THEN Unparsed(<< >>) ELSE storedResults
  /\ storedStats' = IF "stats" \in damaged THEN Unparsed(InitialStats) ELSE storedStats
  /\ storedMaps' = IF "maps" \in damaged THEN Unparsed(<< >>) ELSE storedMaps
  /\ storedDaily' = IF "daily" \in damaged THEN Unparsed(<< >>) ELSE storedDaily
  /\ page' = page + 1
  /\ lastNominatimRequest' = 0
  /\ landFeatures' = NULL
  /\ loadingPromise' = 0
  /\ landGeometry' = NULL
  /\ calls' = << >>
  /\ requests' = << >>
  /\ defaultStats' = InitialStats
  /\ game' = InitialGame
  /\ board' = NoBoard
  /\ loads' = << >>
  /\ UNCHANGED <<now, today, puzzles, started, submitted, storedPlayed, lastDaily, zone, probeVars,
                 storedName, table>>

\* the page is loaded again, localStorage being as it was left
Restart == Reload({})

\* saveMap(map) is called for a point, from the result screen
SaveMap(point) ==
  /\ Len(getSavedMaps) < MaxMaps
  /\ storedMaps' = Stored(Append(getSavedMaps,
                                 [id |-> MapPrefix \o <<now>>, lat |-> point.lat, lng |-> point.lng]))
  /\ UNCHANGED <<geoVars, storedResults, storedStats, defaultStats, submitted, dailyVars, probeVars,
                 uiVars, storedName, loads, table>>

FirstDay == [yyyy |-> 2024, mm |-> 6, dd |-> 1]
HistoryFirstDay == [yyyy |-> 2024, mm |-> 10, dd |-> 26]

\* the page is loaded for the first time, on the day `first` in the zone `tz`,
\* `pending` being the puzzle loads its effects have started
BootWith(first, tz, last, pending) ==
  /\ now = PageLoadTime
  /\ today = first
  /\ zone = tz
  /\ page = 1
  /\ lastNominatimRequest = last
  /\ landFeatures = NULL
  /\ loadingPromise = 0
  /\ landGeometry = NULL
  /\ calls = << >>
  /\ requests = << >>
  /\ puzzles = {}
  /\ started = 0
  /\ storedResults = Removed(<< >>)
  /\ storedStats = Removed(InitialStats)
  /\ defaultStats = InitialStats
  /\ submitted = << >>
  /\ storedDaily = Removed(<< >>)
  /\ storedPlayed = [has |-> FALSE, value |-> << >>]
  /\ lastDaily = [has |-> FALSE, result |-> [date |-> << >>, distanceKm |-> 0]]
  /\ storedMaps = Removed(<< >>)
  /\ storedName = [has |-> FALSE, value |-> << >>]
  /\ loads = pending
  /\ table = {}

\* no hook has been mounted
BootAfter(first, tz, last) == BootWith(first, tz, last, << >>)

\* no Nominatim request has been made yet
Boot(first, tz) == BootAfter(first, tz, 0)

\* no pure function is under test, and the hook is in its first state
NoProbe ==
  /\ probe = << >> /\ probed = [done |-> FALSE, value |-> << >>]
  /\ game = InitialGame /\ board = NoBoard

Init == Boot(FirstDay, ZoneUTC) /\ NoProbe

\* the event loop's part in a reverse lookup, and in its local fallback
Lookup(responses) ==
  \/ \E c \in 1..Len(calls) : TimerFires(c)
  \/ \E c \in 1..Len(calls), resp \in responses : NominatimSettles(c, resp)
  \/ Tick

Fallback ==
  \/ \E c \in 1..Len(calls) : FallbackResumes(c)
  \/ \E r \in 1..Len(requests), outcome \in CountrySnapshots \cup {"failed"} :
       CountriesSettle(r, outcome)

\* the land checker and the reverse geocoder under concurrent callers
Next ==
  \/ \E point \in QueryPoints : StartResolve(point, MaxCalls)
  \/ StartLoad
  \/ \E c \in 1..Len(calls) : LoadResolves(c)
  \/ Lookup(Responses)
  \/ Fallback

Spec == Init /\ [][Next]_vars

\* reverse lookups only, as the result screen and submitGuess start them
NextLookups ==
  \/ StartResolve(Paris, MaxLookups)
  \/ Lookup(FewResponses)
  \/ Fallback

SpecLookups == Init /\ [][NextLookups]_vars

\* the daily puzzle over page loads and days, the remote geocoder answering
NextDaily ==
  \/ StartDaily
  \/ \E r \in 1..Len(requests), outcome \in {"landA", "landB", "failed"} :
       LandSettle(r, outcome)
  \/ \E c \in 1..Len(calls) : GenerateSeededLandPoint(c)
  \/ Lookup(Answers)
  \/ DateRolls(FirstDay, MaxDays)
  \/ Restart

SpecDaily == Init /\ [][NextDaily]_vars

\* practice and daily puzzles generated side by side on one page
NextPuzzle ==
  \/ StartPuzzle
  \/ StartDaily
  \/ \E c \in 1..Len(calls) : GenerateRandomLandPoint(c)
  \/ \E r \in 1..Len(requests), outcome \in {"landA", "landNone", "failed"} :
       LandSettle(r, outcome)
  \/ \E c \in 1..Len(calls) : GenerateSeededLandPoint(c)
  \/ Lookup(FewResponses)
  \/ Fallback

SpecPuzzle == Init /\ [][NextPuzzle]_vars

\* the statistics under rounds saved one after another
NextStats == \E result \in ResultInputs : SaveResult(result)

SpecStats == Init /\ [][NextStats]_vars

\* rounds saved and the statistics cleared, in one session
NextClear ==
  \/ \E result \in ResultInputs : Len(submitted) < MaxClearSaves /\ SaveResult(result)
  \/ ClearAllStats

SpecClear == Init /\ [][NextClear]_vars

\* the keys whose items are JSON
JsonKeys == {"results", "stats", "maps", "daily"}

\* results, daily results and maps saved over page loads, between which
\* stored items get damaged
NextDamaged ==
  \/ \E result \in ResultInputs : Len(submitted) < MaxDamagedSaves /\ SaveResult(result)
  \/ \E distanceKm \in DailyDistances : SaveDailyResult(distanceKm)
  \/ \E point \in QueryPoints : SaveMap(point)
  \/ \E damaged \in SUBSET JsonKeys : Reload(damaged)

SpecDamaged == Init /\ [][NextDamaged]_vars

\* the days before today without a result, from the oldest retained result on
Skipped(results) ==
  IF Len(results) = 0 THEN DayNumber(today) - DayNumber(HistoryFirstDay)
  ELSE (DayNumber(today) - DayNumber(DateFields(results[Len(results)].date)))
         - Cardinality({i \in DOMAIN results : results[i].date # getTodayDateString})

\* the daily history over a month of daily games, a day missed now and then
NextHistory ==
  \/ \E distanceKm \in DailyDistances : SaveDailyResult(distanceKm)
  \/ /\ hasDailyBeenPlayed \/ Skipped(getDailyResults) < MaxSkips
     /\ DateRolls(HistoryFirstDay, MaxHistoryDays)

\* empty storage on the first day of the history
InitHistory == Boot(HistoryFirstDay, ZoneUTC) /\ NoProbe

SpecHistory == InitHistory /\ [][NextHistory]_vars

\* the streak over days played or missed at will, in every time zone
NextStreak ==
  \/ ~hasDailyBeenPlayed /\ SaveDailyResult(5)
  \/ DateRolls(HistoryFirstDay, MaxStreakDays)

\* empty storage, the browser in one of the time zones
InitStreak == (\E tz \in Zones : Boot(HistoryFirstDay, tz)) /\ NoProbe

SpecStreak == InitStreak /\ [][NextStreak]_vars

\* getDistanceBand on every pair of the distances
InitBand ==
  /\ Boot(FirstDay, ZoneUTC)
  /\ probe \in Distances \X Distances
  /\ probed = [done |-> FALSE, value |-> << >>]
  /\ game = InitialGame /\ board = NoBoard

SpecBand == InitBand /\ [][GetDistanceBand]_vars

\* the display name of every address
InitNames ==
  /\ Boot(FirstDay, ZoneUTC)
  /\ probe \in Addresses
  /\ probed = [done |-> FALSE, value |-> << >>]
  /\ game = InitialGame /\ board = NoBoard

SpecNames == InitNames /\ [][BuildDetails]_vars

\* a loaded puzzle, daily or practice, the map open; the location of the
\* puzzle came from the land data alone, or from Nominatim a moment ago
InitGame ==
  /\ \E last \in {0, PageLoadTime} : BootAfter(FirstDay, ZoneUTC, last)
  /\ probe = << >> /\ probed = [done |-> FALSE, value |-> << >>]
  /\ \E mode \in {"daily", "practice"} : game = Placing(mode)
  /\ board = NoBoard

\* guesses submitted and the leaderboard read and written
NextGame ==
  \/ \E point \in QueryPoints : PlacePin(point)
  \/ SubmitGuess
  \/ \E c \in 1..Len(calls) : TimerFires(c)
  \/ \E c \in 1..Len(calls), resp \in FewResponses : NominatimSettles(c, resp)
  \/ Fallback
  \/ \E c \in 1..Len(calls) : SubmitGuessResumes(c)
  \/ \E r \in 1..Len(requests), outcome \in {"ok", "failed"} : PostSettles(r, outcome)
  \/ OpenHighScores
  \/ \E r \in 1..Len(requests), outcome \in BoardOutcomes : BoardSettles(r, outcome)
  \/ BoardTimeout
  \/ CloseHighScores
  \/ Wait

SpecGame == InitGame /\ [][NextGame]_vars

(***************************************************************************)
(* Properties                                                              *)
(***************************************************************************)
Lookups == {c \in 1..Len(calls) : calls[c].op = "reverseGeocodeDetailed"}
Loaders == {c \in 1..Len(calls) : calls[c].op = "loadLandData"}
Generators == {c \in 1..Len(calls) : calls[c].op \in {"generatePuzzle", "getDailyPuzzle"}}
RequestsTo(url) == {r \in 1..Len(requests) : requests[r].url = url}

\* C1: any two remote reverse-geocode requests are dispatched at least
\* ThrottleMs apart, however the reverseGeocodeDetailed calls interleave.
C1_RequestsSpaced ==
  \A i, j \in RequestsTo("nominatim") :
    i < j => requests[j].at - requests[i].at >= ThrottleMs

\* C2: however many loadLandData calls are made, before or after the fetch of
\* the features completes, at most one fetch is issued, exactly one once a
\* caller has asked, and every caller that resolves gets the features of that
\* one fetch.
C2_SingleFlight ==
  /\ Cardinality(RequestsTo("countries")) <= 1
  /\ Loaders # {} => Cardinality(RequestsTo("countries")) = 1
  /\ \A c \in Loaders : \A r \in RequestsTo("countries") :
       calls[c].pc = "resolved" =>
         /\ requests[r].status = "ok"
         /\ calls[c].value = requests[r].result
         /\ calls[c].value = landFeatures

\* two callers that both joined the load in flight have resolved
C2_Witness ==
  \E c, d \in Loaders :
    /\ c # d
    /\ calls[c].pc = "resolved" /\ calls[d].pc = "resolved"
    /\ calls[c].awaitReq # 0 /\ calls[d].awaitReq # 0

\* C3: getDailyPuzzle calls started before the land geometry is cached share
\* one geometry fetch and use the same geometry snapshot.
C3_GeometryCoalesced ==
  /\ Cardinality(RequestsTo("land")) <= 1
  /\ \A c, d \in Generators :
       calls[c].geom # NULL /\ calls[d].geom # NULL => calls[c].geom = calls[d].geom

\* C4: two daily puzzles generated for the same date string from the same
\* geometry snapshot, on one page load or on two, have the same lat and lng
\* and the same id daily-<date>, whatever the remote geocoder answered.
C4_DailyDeterministic ==
  \A p, q \in puzzles :
    p.op = "getDailyPuzzle" /\ q.op = "getDailyPuzzle"
    /\ p.dateStr = q.dateStr /\ p.geom = q.geom =>
      /\ p.puzzle.location.lat = q.puzzle.location.lat
      /\ p.puzzle.location.lng = q.puzzle.location.lng
      /\ p.puzzle.id = q.puzzle.id
      /\ p.puzzle.id = DailyPrefix \o p.dateStr

\* the same date and snapshot on two page loads, the geocoder answering
\* differently
C4_Witness ==
  \E p, q \in puzzles :
    /\ p.page # q.page
    /\ p.dateStr = q.dateStr /\ p.geom = q.geom
    /\ p.puzzle.location.country # q.puzzle.location.country

InCells(lat, lng, snapshot) ==
  \E f \in 1..Len(Features(snapshot)) : CellOf(lat, lng) \in Features(snapshot)[f].cells

\* C5: the point a sampler returned lies on the land of the geometry it
\* loaded, or it is the sampler's fallback point (Paris for practice, London
\* for daily) returned after all its attempts were rejected.
C5_OnLandOrFallback ==
  \A c \in Generators :
    calls[c].geom # NULL =>
      IF calls[c].exhausted
      THEN IF calls[c].op = "generatePuzzle"
           THEN /\ calls[c].lat = 488566 /\ calls[c].lng = 23522
                /\ \E a, b \in RandomValues :
                     ~InCells(RandomLat(a), RandomLng(b), calls[c].geom)
           ELSE /\ calls[c].lat = 515074 /\ calls[c].lng = -1278
                /\ \A i \in 0..999 :
                     ~InCells(DailyCandidate(calls[c].seed, i).lat,
                              DailyCandidate(calls[c].seed, i).lng, calls[c].geom)
      ELSE InCells(calls[c].lat, calls[c].lng, calls[c].geom)

\* a practice puzzle on the fallback point beside a daily puzzle on land
C5_Witness ==
  \E c, d \in Generators :
    /\ calls[c].op = "generatePuzzle" /\ calls[c].geom # NULL /\ calls[c].exhausted
    /\ calls[d].op = "getDailyPuzzle" /\ calls[d].geom # NULL /\ ~calls[d].exhausted

\* C6: a generator whose geometry fetch failed rejects and yields no Puzzle;
\* a generator that went on to a point, and every Puzzle, has a geometry that
\* a fetch delivered.
C6_LoadFailureRejects ==
  /\ \A c \in Generators :
       /\ calls[c].pc \notin {"awaitLoad", "awaitGeometry", "rejected"} =>
            /\ calls[c].geom # NULL
            /\ calls[c].loadReq # 0 => requests[calls[c].loadReq].status = "ok"
       /\ calls[c].pc = "rejected" =>
            /\ calls[c].loadReq # 0
            /\ requests[calls[c].loadReq].status = "failed"
            /\ calls[c].value = NULL
       /\ (calls[c].loadReq # 0 /\ requests[calls[c].loadReq].status = "failed") =>
            calls[c].pc = "rejected"
  /\ \A p \in puzzles : p.geom # NULL

\* a practice and a daily generation both rejected
C6_Witness ==
  \E c, d \in Generators :
    /\ calls[c].op = "generatePuzzle" /\ calls[c].pc = "rejected"
    /\ calls[d].op = "getDailyPuzzle" /\ calls[d].pc = "rejected"

\* the country the local lookup yields for the point of call c
LocalCountry(c) ==
  IF landFeatures = NULL THEN "Unknown Location"
  ELSE IF getCountryAtPoint(calls[c].lat, calls[c].lng, Features(landFeatures)) = NULL
  THEN "Unknown Location"
  ELSE getCountryAtPoint(calls[c].lat, calls[c].lng, Features(landFeatures))

RemoteFailed(resp) == resp.fetch = "rejected" \/ ~resp.ok \/ resp.json = "rejected"

\* C7: reverseGeocodeDetailed never rejects, and after a network error, a
\* non-OK status or an unreadable body it resolves to exactly
\* {country: X, displayName: X}, X the local country of the point or
\* "Unknown Location".
C7_NeverRejects ==
  \A c \in Lookups :
    /\ calls[c].pc # "rejected"
    /\ (calls[c].pc = "resolved" /\ RemoteFailed(calls[c].remote)) =>
         calls[c].value = [country |-> LocalCountry(c), displayName |-> Plain(LocalCountry(c))]

\* a lookup answered with a non-OK status resolved to the local country
C7_Witness ==
  \E c \in Lookups :
    /\ calls[c].pc = "resolved"
    /\ calls[c].remote = HttpError
    /\ calls[c].value.country = "France"

Malformed(resp) ==
  \/ resp.json = "null"
  \/ "address" \notin DOMAIN resp.data
  \/ "country" \notin DOMAIN resp.data.address

\* C8: after a failed remote lookup, a body without an address object or
\* without a country field included, reverseGeocodeDetailed resolves to the
\* local fallback {country: X, displayName: X}.
C8_MalformedFallsBack ==
  \A c \in Lookups :
    (calls[c].pc = "resolved"
     /\ (RemoteFailed(calls[c].remote) \/ Malformed(calls[c].remote))) =>
      calls[c].value = [country |-> LocalCountry(c), displayName |-> Plain(LocalCountry(c))]

StoredDistances == [i \in DOMAIN storedResults.json |-> storedResults.json[i].distanceKm]

\* C9: the stored PlayerStats can be recomputed from the stored history:
\* totalRounds is its length, bestDistance and worstDistance its minimum and
\* maximum distance.
C9_StatsFromHistory ==
  storedStats.has =>
    /\ storedStats.json.totalRounds = Len(storedResults.json)
    /\ \E i \in DOMAIN StoredDistances : storedStats.json.bestDistance = StoredDistances[i]
    /\ \A i \in DOMAIN StoredDistances : storedStats.json.bestDistance <= StoredDistances[i]
    /\ \E i \in DOMAIN StoredDistances : storedStats.json.worstDistance = StoredDistances[i]
    /\ \A i \in DOMAIN StoredDistances : storedStats.json.worstDistance >= StoredDistances[i]

\* v is the k-th smallest (from 0) of the stored distances
Ranked(v, k) ==
  /\ \E i \in DOMAIN StoredDistances : StoredDistances[i] = v
  /\ Cardinality({i \in DOMAIN StoredDistances : StoredDistances[i] < v}) <= k
  /\ Cardinality({i \in DOMAIN StoredDistances : StoredDistances[i] > v})
       <= Len(StoredDistances) - 1 - k

\* C10: after a saveResult call the stored medianDistance is the median of
\* the distances of the results the stored history retains (kept doubled:
\* the middle value twice, or the sum of the two middle values).
C10_MedianOfRetained ==
  storedStats.has =>
    \E a, b \in {StoredDistances[i] : i \in DOMAIN StoredDistances} :
      /\ Ranked(a, (Len(StoredDistances) - 1) \div 2)
      /\ Ranked(b, Len(StoredDistances) \div 2)
      /\ storedStats.json.medianDistance = a + b

\* C11: after n saveResult calls from empty storage the stored history is the
\* last min(n, HistoryCap) submitted results in submission order: older
\* results leave at the head, and nothing that stays is changed or moved.
C11_HistoryIsTail ==
  /\ Len(getResults) = MathMin(Len(submitted), 100)
  /\ \A i \in 1..Len(getResults) :
       getResults[i] = submitted[Len(submitted) - Len(getResults) + i]

\* more results than the cap were submitted, and both kinds are retained
C11_Witness ==
  /\ Len(submitted) > 100
  /\ Len(storedResults.json) = 100
  /\ storedResults.json[1] # storedResults.json[100]

\* C12: the stored daily history holds at most one result per date, and the
\* one entry for the date of the result saved last is that result.
C12_OnePerDate ==
  /\ \A i, j \in DOMAIN storedDaily.json :
       storedDaily.json[i].date = storedDaily.json[j].date => i = j
  /\ lastDaily.has =>
       \E i \in DOMAIN storedDaily.json : storedDaily.json[i] = lastDaily.result

\* a second result for a date already present took the place of the first
C12_Witness ==
  /\ lastDaily.has
  /\ lastDaily.result.distanceKm = 7
  /\ Len(storedDaily.json) >= 2
  /\ \E i \in DOMAIN storedDaily.json : storedDaily.json[i] = lastDaily.result

\* the stored results that the step leaves without a successor of their date
Dropped ==
  {i \in DOMAIN storedDaily.json :
     \A k \in DOMAIN storedDaily'.json : storedDaily'.json[k].date # storedDaily.json[i].date}

\* C13: the stored daily history is sorted by date, newest first, and has at
\* most 30 entries; a saveDailyResult call drops results, the one it was given
\* included, only when the history is full, and every result it drops is
\* older than every result it keeps.
C13_SortedAndCapped ==
  /\ [](/\ Len(storedDaily.json) <= 30
        /\ \A i \in 1..(Len(storedDaily.json) - 1) :
             StrLess(storedDaily.json[i + 1].date, storedDaily.json[i].date))
  /\ [][/\ \A i \in Dropped :
            /\ Len(storedDaily'.json) = 30
            /\ \A k \in DOMAIN storedDaily'.json :
                 StrLess(storedDaily.json[i].date, storedDaily'.json[k].date)
        /\ (lastDaily' # lastDaily) =>
            \/ \E k \in DOMAIN storedDaily'.json : storedDaily'.json[k] = lastDaily'.result
            \/ /\ Len(storedDaily'.json) = 30
               /\ \A k \in DOMAIN storedDaily'.json :
                    StrLess(lastDaily'.result.date, storedDaily'.json[k].date)]_vars

\* a full history whose oldest days have been dropped
C13_Witness ==
  /\ Len(storedDaily.json) = 30
  /\ DayNumber(DateFields(storedDaily.json[30].date)) >= DayNumber(HistoryFirstDay) + 2

TierRank(tier) ==
  IF tier = "excellent" THEN 4 ELSE IF tier = "good" THEN 3 ELSE IF tier = "fair" THEN 2
  ELSE IF tier = "far" THEN 1 ELSE 0

\* C17: of two distances, the smaller never gets a worse tier than the larger
\* (excellent > good > fair > far), and every distance gets one of the four
\* tiers and a label.
C17_TiersFollowDistance ==
  probed.done =>
    /\ \A i \in 1..2 : TierRank(probed.value[i].tier) > 0 /\ probed.value[i].label # ""
    /\ probe[1] = probe[2] => probed.value[1] = probed.value[2]
    /\ probe[1] < probe[2] => TierRank(probed.value[1].tier) >= TierRank(probed.value[2].tier)

\* the two sides of a bound between two tiers
C17_Witness ==
  /\ probed.done
  /\ probe[1] = 1999 /\ probe[2] = 2000
  /\ probed.value[1].tier = "excellent" /\ probed.value[2].tier = "good"

\* the first of `keys` the address has, or UNDEF
FirstPresent(address, keys) ==
  IF \A i \in DOMAIN keys : keys[i] \notin DOMAIN address THEN UNDEF
  ELSE address[keys[CHOOSE i \in DOMAIN keys :
                      /\ keys[i] \in DOMAIN address
                      /\ \A j \in 1..(i - 1) : keys[j] \notin DOMAIN address]]

\* the name the priority landmark > city, state > city, country >
\* neighbourhood, state > state, country > country gives
NameByPriority(landmark, city, state, neighbourhood, country) ==
  IF landmark # UNDEF THEN <<landmark>>
  ELSE IF city # UNDEF /\ state # UNDEF THEN <<city, ", ", state>>
  ELSE IF city # UNDEF THEN <<city, ", ", country>>
  ELSE IF neighbourhood # UNDEF /\ state # UNDEF THEN <<neighbourhood, ", ", state>>
  ELSE IF state # UNDEF THEN <<state, ", ", country>>
  ELSE <<country>>

\* C18: whichever of the landmark, city, state and neighbourhood fields a
\* successful remote response has, displayName is the first that applies of
\* landmark, "city, state", "city, country", "neighbourhood, state",
\* "state, country" and the country alone.
C18_DisplayNamePriority ==
  probed.done =>
    probed.value.displayName =
      NameByPriority(FirstPresent(probe, <<"tourism", "military">>),
                     FirstPresent(probe, <<"city", "village">>),
                     FirstPresent(probe, <<"state", "county">>),
                     FirstPresent(probe, <<"neighbourhood", "district">>),
                     IF "country" \in DOMAIN probe THEN probe.country ELSE "Unknown")

\* a neighbourhood and a state without a city or a landmark
C18_Witness ==
  /\ probed.done
  /\ DOMAIN probe = {"district", "county", "country"}
  /\ probed.value.displayName = <<"4e", ", ", "Eure">>

\* the calendar days that have a result in the daily history
PlayedDays == {DayNumber(DateFields(getDailyResults[i].date)) : i \in DOMAIN getDailyResults}

\* the number of consecutive played days that end with day `last`
RunEndingOn(last) ==
  CHOOSE k \in 0..(Len(getDailyResults) + 1) :
    /\ \A j \in 0..(k - 1) : (last - j) \in PlayedDays
    /\ (last - k) \notin PlayedDays

\* C14: getDailyStreak().current is the number of consecutive calendar days
\* with a result, counted back from today when today has a result and from
\* yesterday otherwise, up to the first day without one.
C14_CurrentStreak ==
  getDailyStreak.current =
    IF DayNumber(today) \in PlayedDays THEN RunEndingOn(DayNumber(today))
    ELSE RunEndingOn(DayNumber(today) - 1)

\* C15: for a non-empty daily history getDailyStreak().best is the length of
\* the longest run of consecutive calendar days with a result, whatever
\* today's date is.
C15_BestStreak ==
  Len(getDailyResults) > 0 =>
    /\ \E last \in PlayedDays : getDailyStreak.best = RunEndingOn(last)
    /\ \A last \in PlayedDays : getDailyStreak.best >= RunEndingOn(last)

\* C16: hasDailyBeenPlayed() turns true only in a step that saves a result
\* for today, stays true while the local date stays, and turns false when
\* the local date changes, nothing being written to storage.
C16_PlayedToday ==
  [][/\ (~hasDailyBeenPlayed /\ hasDailyBeenPlayed') =>
          /\ lastDaily'.has
          /\ lastDaily'.result.date = getTodayDateString'
          /\ storedPlayed' # storedPlayed
          /\ \E i \in DOMAIN storedDaily'.json : storedDaily'.json[i] = lastDaily'.result
     /\ (hasDailyBeenPlayed /\ today' = today) => hasDailyBeenPlayed'
     /\ (hasDailyBeenPlayed /\ today' # today) =>
          /\ ~hasDailyBeenPlayed'
          /\ UNCHANGED <<storedDaily, storedPlayed, storedResults, storedStats>>]_vars

\* the marker of an earlier day is stored and today has not been played
C16_Witness ==
  /\ storedPlayed.has
  /\ ~hasDailyBeenPlayed
  /\ \E i \in DOMAIN storedDaily.json : storedDaily.json[i].date = storedPlayed.value

\* the submitGuess calls, and a step in which a postHighScore request fails
Submits == {c \in 1..Len(calls) : calls[c].op = "submitGuess"}
WriteFails ==
  \E r \in RequestsTo("POST /HighScores/") :
    requests[r].status = "pending" /\ requests'[r].status = "failed"

\* the read of the mounted HighScores page failed, or its timer fired first
ReadFailed ==
  /\ board.mounted /\ board.req # 0
  /\ \/ requests[board.req].status = "failed"
     \/ board.raced /\ requests[board.req].status = "pending"

\* a failed or timed-out read has put the page into its error state, the
\* loading finished
ReadFailureShown == ReadFailed => board.error # NULL /\ ~board.loading

\* C19: every leaderboard failure reaches the state the UI renders: a failed
\* or timed-out read leaves the HighScores page with an error and loading
\* finished, and a failing postHighScore changes the state of the hook or of
\* the page.
C19_FailuresSurfaced ==
  /\ []ReadFailureShown
  /\ [][WriteFails => <<game, board>>' # <<game, board>>]_vars

\* submitGuess of call c, in daily mode, goes on after its await in this step
DailySubmitEnds(c) ==
  calls[c].pc = "geocoded" /\ calls'[c].pc = "done" /\ calls[c].snapshot.mode = "daily"

\* C20: the step in which submitGuess in daily mode ends leaves the GameResult
\* as the last of the result history, the DailyResult in the daily history,
\* the played marker set to today and the hook in phase 'result'; the step in
\* which its postHighScore fails changes none of these, so that afterwards the
\* results are still stored, the day is marked as played and the phase is
\* 'result'.
C20_LocalStateKept ==
  /\ [][\A c \in Submits :
         DailySubmitEnds(c)
         => /\ getResults' # << >> /\ getResults'[Len(getResults')] = GameResultOf(c)
            /\ \E i \in DOMAIN getDailyResults' : getDailyResults'[i] = DailyResultOf(c)
            /\ hasDailyBeenPlayed'
            /\ game'.phase = "result" /\ game'.result.has /\ game'.dailyCompleted]_vars
  /\ [][WriteFails => UNCHANGED <<storedResults, storedStats, storedDaily, storedPlayed, game>>]_vars
  /\ [](\A c \in Submits :
         (/\ calls[c].pc = "done"
          /\ calls[c].snapshot.mode = "daily"
          /\ requests[calls[c].awaitReq].status = "failed")
         => /\ \E i \in DOMAIN getResults : getResults[i] = GameResultOf(c)
            /\ \E i \in DOMAIN getDailyResults : getDailyResults[i].date = DailyResultOf(c).date
            /\ hasDailyBeenPlayed
            /\ game.phase = "result" /\ game.dailyCompleted)

\* a daily guess far from the puzzle was submitted, everything was saved, and
\* the leaderboard refused the score
C20_Witness ==
  \E c \in Submits :
    /\ calls[c].pc = "done"
    /\ calls[c].snapshot.mode = "daily"
    /\ requests[calls[c].awaitReq].status = "failed"
    /\ getResults = <<GameResultOf(c)>>
    /\ GameResultOf(c).distanceKm = 62528
    /\ game.phase = "result"

\* C30: whatever the daily history and today's date, getDailyStreak() returns
\* best >= current >= 0, and current is at most the number of stored results.
C30_StreakBounds ==
  LET streak == getDailyStreak
  IN /\ streak.current >= 0
     /\ streak.best >= streak.current
     /\ streak.current <= Len(getDailyResults)

\* a streak is running, and an earlier one was longer
C30_Witness ==
  /\ getDailyStreak.current >= 1
  /\ getDailyStreak.best > getDailyStreak.current
  /\ Len(getDailyResults) > getDailyStreak.best

\* C28: after any saves of daily results and any passing of midnights,
\* hasDailyBeenPlayed() is true exactly when getTodaysResult() is not null.
C28_PlayedIffResultToday == hasDailyBeenPlayed <=> getTodaysResult.has

\* today's result was saved into a history that holds earlier days
C28_Witness ==
  /\ hasDailyBeenPlayed
  /\ Len(getDailyResults) >= 3
  /\ getTodaysResult.result = lastDaily.result

\* the practice generations
Practices == {c \in Generators : calls[c].op = "generatePuzzle"}

\* C29: on one page at most one fetch of the countries topology is ever
\* issued, also once it has failed: no step after the failure adds a fetch,
\* and every practice generation awaits that one fetch and, once it has gone
\* on, has rejected with the failure of that fetch.
C29_FailedLoadIsKept ==
  /\ [](/\ Cardinality(RequestsTo("countries")) <= 1
        /\ \A r \in RequestsTo("countries") : \A c \in Practices :
             requests[r].status = "failed" =>
               /\ calls[c].pc \in {"awaitLoad", "rejected"}
               /\ calls[c].pc = "awaitLoad" => calls[c].awaitReq = r
               /\ calls[c].pc = "rejected" => calls[c].loadReq = r /\ calls[c].value = NULL)
  /\ [][(\E r \in RequestsTo("countries") : requests[r].status = "failed")
         => RequestsTo("countries")' = RequestsTo("countries")]_vars

\* one practice generation has rejected, and another one awaits the fetch
\* that has failed
C29_Witness ==
  \E c, d \in Practices : \E r \in RequestsTo("countries") :
    /\ requests[r].status = "failed"
    /\ calls[c].pc = "rejected" /\ calls[c].loadReq = r
    /\ calls[d].pc = "awaitLoad" /\ calls[d].awaitReq = r

\* C23: after clearAllStats getStats() has totalRounds 0, no country visited
\* and no continent counted, and the statistics stored by the next
\* saveResult count that one result only.
C23_ClearDeletesAll ==
  /\ [](~storedStats.has =>
          /\ getStats.totalRounds = 0
          /\ getStats.countriesVisited = NoEntries
          /\ getStats.continentCounts = NoEntries)
  /\ [][(~storedStats.has /\ storedStats'.has) =>
          LET result == submitted'[Len(submitted')]
              stats == getStats'
          IN /\ stats.totalRounds = 1
             /\ DOMAIN stats.countriesVisited = {result.country} \ {""}
             /\ \A k \in DOMAIN stats.countriesVisited : stats.countriesVisited[k].count = 1
             /\ \A k \in DOMAIN stats.continentCounts : stats.continentCounts[k] = 1]_vars

(***************************************************************************)
(* Stored items that are not JSON                                          *)
(***************************************************************************)
\* C22: while the item under a key is not JSON, the getter of that key
\* returns the empty list or the default statistics; and the next save
\* under that key leaves JSON there that holds what was saved.
C22_DamagedItemsRecover ==
  /\ [](/\ ~storedResults.parses => getResults = << >>
        /\ ~storedStats.parses => getStats = InitialStats
        /\ ~storedMaps.parses => getSavedMaps = << >>
        /\ ~storedDaily.parses => getDailyResults = << >>)
  /\ [][/\ (~storedResults.parses /\ storedResults' # storedResults) =>
              /\ storedResults'.has /\ storedResults'.parses
              /\ getResults' = <<submitted'[Len(submitted')]>>
        /\ (~storedStats.parses /\ storedStats' # storedStats) =>
              /\ storedStats'.has /\ storedStats'.parses
              /\ getStats'.totalRounds = 1
              /\ getStats'.recentResults = LastOf(getResults', RecentCap)
        /\ (~storedMaps.parses /\ storedMaps' # storedMaps) =>
              /\ storedMaps'.has /\ storedMaps'.parses
              /\ Len(getSavedMaps') = 1
              /\ getSavedMaps'[1].id = MapPrefix \o <<now>>
        /\ (~storedDaily.parses /\ storedDaily' # storedDaily) =>
              /\ storedDaily'.has /\ storedDaily'.parses
              /\ getDailyResults' = <<lastDaily'.result>>]_vars

\* a result, a map and a daily result were each saved over an item that was
\* not JSON
C22_Witness ==
  /\ Len(submitted) = 2 /\ getResults = <<submitted[2]>>
  /\ storedStats.parses /\ getStats.totalRounds = 1
  /\ storedMaps.parses /\ Len(getSavedMaps) = 1 /\ getSavedMaps[1].id = MapPrefix \o <<now>>
  /\ page = 2 /\ storedDaily.parses /\ Len(getDailyResults) = 1

(***************************************************************************)
(* The rounds of the hook                                                  *)
(***************************************************************************)
\* the names typed into the name form: "Ada", " A " and ""
NameInputs == {<<65, 100, 97>>, <<Space, 65, Space>>, << >>}

\* the hook is mounted: its effect has called generatePuzzle()
InitHook ==
  /\ BootWith(FirstDay, ZoneUTC, 0, <<PuzzleLoad("practice")>>)
  /\ NoProbe

\* the actions that start a round or end a load
Rounds ==
  \/ StartPracticeGame
  \/ StartDailyGame
  \/ \E name \in NameInputs : SetPlayerName(name)
  \/ ContinueAfterName
  \/ CancelNameInput
  \/ \E i \in 1..Len(loads) : PuzzleArrives(i)
  \/ OpenMap
  \/ \E point \in QueryPoints : PlacePin(point)

\* rounds in which the player zooms and goes to the map and back
NextZoom ==
  \/ Rounds
  \/ ZoomOut
  \/ ZoomIn
  \/ BackToViewing

\* the hook is mounted, or a puzzle is loaded and the map is open
InitZoom ==
  \/ InitHook
  \/ /\ Boot(FirstDay, ZoneUTC)
     /\ probe = << >> /\ probed = [done |-> FALSE, value |-> << >>]
     /\ \E mode \in {"daily", "practice"} : game = Placing(mode)
     /\ board = NoBoard

SpecZoom == InitZoom /\ [][NextZoom]_vars

\* rounds in which a guess is submitted, over midnight
NextHook ==
  \/ Rounds
  \/ SubmitGuess
  \/ \E c \in 1..Len(calls) : NominatimSettles(c, CityState)
  \/ \E c \in 1..Len(calls) : SubmitGuessResumes(c)
  \/ DateRolls(FirstDay, HookDays)

SpecHook == InitHook /\ [][NextHook]_vars

\* C27: 0 <= zoomStep <= maxZoomStepUsed <= MAX_ZOOM_STEPS - 1 in every state
\* of the hook; zoomIn leaves maxZoomStepUsed as it is; zoomOut at the last
\* step and zoomIn at step 0 leave the state as it is.
C27_ZoomInRange ==
  /\ 0 <= game.zoomStep
  /\ game.zoomStep <= game.maxZoomStepUsed
  /\ game.maxZoomStepUsed <= MAX_ZOOM_STEPS - 1
  /\ zoomIn(game).maxZoomStepUsed = game.maxZoomStepUsed
  /\ game.zoomStep = MAX_ZOOM_STEPS - 1 => zoomOut(game) = game
  /\ game.zoomStep = 0 => zoomIn(game) = game

\* the player zoomed out to the last level and back in by two
C27_Witness == game.zoomStep = 1 /\ game.maxZoomStepUsed = MAX_ZOOM_STEPS - 1

\* C26: a step that starts a round, that is, one that clears the puzzle and
\* starts a load, leaves zoomStep and maxZoomStepUsed at 0 and guess and
\* result null.
C26_RoundStartResets ==
  [][(~game'.puzzle.has /\ Len(loads') > Len(loads)) =>
       /\ game'.zoomStep = 0 /\ game'.maxZoomStepUsed = 0
       /\ ~game'.guess.has /\ ~game'.result.has]_vars

\* the daily loads that are pending
DailyLoads == {i \in DOMAIN loads : loads[i].kind = "daily"}

\* C24: in the step in which submitGuess saves a DailyResult, the puzzle of
\* its snapshot is the daily puzzle of the result's date.
C24_DailyResultOfDailyPuzzle ==
  [][\A c \in Submits :
       DailySubmitEnds(c) =>
         calls[c].snapshot.puzzle.id = DailyPrefix \o lastDaily'.result.date]_vars

\* C25: while hasDailyBeenPlayed() is true no step starts a load of the daily
\* puzzle and none saves a DailyResult.
C25_PlayedOncePerDay ==
  [][hasDailyBeenPlayed =>
       /\ Cardinality({i \in DOMAIN loads' : loads'[i].kind = "daily"}) <= Cardinality(DailyLoads)
       /\ \A c \in Submits : ~DailySubmitEnds(c)]_vars

(***************************************************************************)
(* The leaderboard store                                                   *)
(***************************************************************************)
\* the names of the players: "Ada" and "Bob"
PlayerNames == {<<65, 100, 97>>, <<66, 111, 98>>}

\* the daily results that are posted
PostInputs ==
  {[date |-> getTodayDateString, playerName |-> name, distanceKm |-> distanceKm,
    zoomLevel |-> zoomLevel] :
     name \in PlayerNames, distanceKm \in {5, 62528}, zoomLevel \in {0, 1}}

\* daily results are posted as time passes
NextBoard ==
  \/ \E result \in PostInputs, collision \in Collisions : PostHighScore(result, collision)
  \/ Tick

SpecBoard == Init /\ [][NextBoard]_vars

\* C21: the rows of the store that agree in date, playerName and distanceKm
\* are one row, whose id is <date>-<playerName>-<distanceKm>, however often
\* such a result was posted.
C21_OneRowPerResult ==
  \A row \in table :
    /\ row.id = row.date \o Dash \o row.playerName \o Dash \o NumberString(row.distanceKm)
    /\ \A other \in table :
         (other.date = row.date /\ other.playerName = row.playerName
            /\ other.distanceKm = row.distanceKm) => other = row

\* two results were posted that agree in date, playerName and distanceKm
C21_Witness == started = 2 /\ Cardinality(table) = 1

=============================================================================
